---- MODULE Spec2Model ----
(***************************************************************************)
(* Sorted association chains (queues.c, deepqueues.c) and the hash         *)
(* directory built on them (hashtabs.c).                                   *)
(*                                                                         *)
(* Pointers are natural numbers, NULL is 0.  The caller's data objects are *)
(* the pointers in Ptrs; the object behind pointer p holds the bytes        *)
(* Obj(p).  Two different caller objects may hold equal keys.              *)
(***************************************************************************)
EXTENDS Integers, Sequences, FiniteSets, TLC

VARIABLES
  live,   \* which chain variant the client instantiated: "queues" or "dqueues"
  q,      \* the shallow chain (struct queues_t)
  dq,     \* the deep chain (struct dqueues_t)
  heap,   \* memory a deep chain works on: address -> bytes, for the caller's
          \* buffers and the payload blocks the chain malloc'ed
  qop,    \* the last chain call: name, argument, result, entries before it
  t,      \* the directory (struct hashtabs_t)
  t2,     \* the directory returned by the last hashtabs_rehash, or NULL
  op,     \* the last directory call: name, argument, result
  hist,   \* the keys inserted, while t has only seen inserts of distinct keys
  budget, \* number of mutating directory calls the client still makes
  stack,  \* the fixed-capacity stack (sstacks_t) with its data array
  array,  \* the dynamic array (struct arrays_t) with its data array
  sets,   \* the two bit sets handed to bit_intersect
  call    \* the last call on the stack, the array or the bit sets

vars == <<live, q, dq, heap, qop, t, t2, op, hist, budget, stack, array, sets, call>>
qvars == <<live, q, dq, heap, qop>>
tvars == <<t, t2, op, hist, budget>>
ovars == <<stack, array, sets, call>>

----------------------------------------------------------------------------
(* Bounds *)

MaxKey == 4        \* keys are 1..MaxKey
MaxLen == 4        \* the client enqueues only while the chain is shorter
MaxTabKey == 3     \* keys used with the directory are 1..MaxTabKey
MaxCalls == 5      \* mutating directory calls explored per run
LadderCalls == 2   \* the same, when every capacity of the ladder is explored

----------------------------------------------------------------------------
(* Caller data *)

\* the null pointer, as a data or node address, as a handle of a chain or a
\* directory, and as a function pointer
NULL == 0
Nil == [nil |-> TRUE]
NoFn == "null"

\* size_t is modelled 31 bits wide (the model checker's integers are 32-bit);
\* SIZE_MAX keeps its role as the largest size_t and the ladder's sentinel.
SIZE_MAX == 2147483647

Inc(n) == IF n = SIZE_MAX THEN 0 ELSE n + 1
Dec(n) == IF n = 0 THEN SIZE_MAX ELSE n - 1

\* two caller objects per key
Ptrs == 1 .. (2 * MaxKey)
KeyOf(p) == ((p - 1) % MaxKey) + 1
RecSize == 2       \* bytes in a caller object: the key byte, then a tag
Obj(p) == [i \in 1 .. RecSize |-> IF i = 1 THEN KeyOf(p) ELSE (p - 1) \div MaxKey]

\* a user compare function giving a linear order: three-way on the key byte,
\* answering -1, 0 or 1, the three values the switch statements of the chains
\* have a case for
cmp_key(a, b) == IF a[1] < b[1] THEN -1 ELSE IF a[1] = b[1] THEN 0 ELSE 1

\* a user compare function giving the same linear order by the difference
\* of the key bytes: negative, zero or positive, of any magnitude
cmp_diff(a, b) == a[1] - b[1]

CallCmp(f, a, b) == CASE f = "cmp_key" -> cmp_key(a, b)
                      [] f = "cmp_diff" -> cmp_diff(a, b)

\* a user compare function with a context argument: the same order, the
\* context is not read
cmp_key_r(a, b, y) == IF a[1] < b[1] THEN -1 ELSE IF a[1] = b[1] THEN 0 ELSE 1

CallCmpR(f, a, b, y) == CASE f = "cmp_key_r" -> cmp_key_r(a, b, y)

Min(S) == CHOOSE m \in S : \A n \in S : m <= n

----------------------------------------------------------------------------
(* queues.c: the shallow chain *)

\* malloc: an address not in use.  Which one is the allocator's choice and
\* the code only compares addresses, so the model fixes a first-fit allocator
\* that starts its search at the address `hint`.
FirstFit(used, hint) ==
  Min((hint .. (hint + Cardinality(used))) \ used)

\* malloc of the link node that will hold x
NewNode(c, x) == FirstFit(DOMAIN c.node, x)

\* free of a link node
FreeNode(nodes, n) == [m \in (DOMAIN nodes) \ {n} |-> nodes[m]]

Fatal == [exit |-> 1]

\* variant of queues_new without the test of the compare functions
queues_new_unchecked(cmp, cmp_r) ==
  [size |-> 0, cmp |-> cmp, cmp_r |-> cmp_r,
   head |-> NULL, tail |-> NULL, node |-> <<>>]

queues_new(cmp, cmp_r) ==
  IF cmp = NoFn /\ cmp_r = NoFn THEN Fatal
  ELSE [size |-> 0, cmp |-> cmp, cmp_r |-> cmp_r,
        head |-> NULL, tail |-> NULL, node |-> <<>>]

\* the entries met from node n following next
RECURSIVE WalkNext(_, _)
WalkNext(c, n) ==
  IF n = NULL THEN <<>> ELSE <<c.node[n].x>> \o WalkNext(c, c.node[n].next)

\* head-to-tail traversal of a chain
Traverse(c) == WalkNext(c, c.head)

\* body scan of queues_enqueu, tmp is the node the scan stands on; the switch
\* has the cases -1, 0 and 1 and no default
RECURSIVE enqueu_body(_, _, _)
enqueu_body(c, x, tmp) ==
  LET nx == c.node[tmp].next IN
  IF nx = NULL THEN c
  ELSE LET r == CallCmp(c.cmp, Obj(x), Obj(c.node[nx].x)) IN
       CASE r = -1 ->
              LET new == NewNode(c, x) IN
              [c EXCEPT !.node = (new :> [x |-> x, prev |-> tmp, next |-> nx])
                                 @@ [@ EXCEPT ![nx].prev = new, ![tmp].next = new],
                        !.size = Inc(@)]
         [] r = 0 -> c
         [] r = 1 -> enqueu_body(c, x, nx)

\* variant of the head check with the sign of the comparison mistaken
queues_enqueu_head_flipped(c, x) ==
  LET r == CallCmp(c.cmp, Obj(x), Obj(c.node[c.head].x)) IN
  IF r = 1 THEN
    LET new == NewNode(c, x) IN
    [c EXCEPT !.node = (new :> [x |-> x, prev |-> NULL, next |-> c.head])
                       @@ [@ EXCEPT ![c.head].prev = new],
              !.head = new,
              !.size = Inc(@)]
  ELSE IF r = 0 THEN c
  ELSE enqueu_body(c, x, c.head)

queues_enqueu_head(c, x) ==
  LET r == CallCmp(c.cmp, Obj(x), Obj(c.node[c.head].x)) IN
  IF r = -1 THEN
    LET new == NewNode(c, x) IN
    [c EXCEPT !.node = (new :> [x |-> x, prev |-> NULL, next |-> c.head])
                       @@ [@ EXCEPT ![c.head].prev = new],
              !.head = new,
              !.size = Inc(@)]
  ELSE IF r = 0 THEN c
  ELSE enqueu_body(c, x, c.head)

\* variant that only knows the empty chain and the tail
queues_enqueu_tailonly(c, x) ==
  IF c.head = NULL THEN
    LET new == NewNode(c, x) IN
    [c EXCEPT !.node = (new :> [x |-> x, prev |-> NULL, next |-> NULL]),
              !.head = new, !.tail = new, !.size = 1]
  ELSE
    LET r == CallCmp(c.cmp, Obj(x), Obj(c.node[c.tail].x)) IN
    IF r = 0 THEN c
    ELSE IF r = 1 THEN
      LET new == NewNode(c, x) IN
      [c EXCEPT !.node = (new :> [x |-> x, prev |-> c.tail, next |-> NULL])
                         @@ [@ EXCEPT ![c.tail].next = new],
                !.tail = new,
                !.size = Inc(@)]
    ELSE c

queues_enqueu(c, x) ==
  IF c.head = NULL THEN
    LET new == NewNode(c, x) IN
    [c EXCEPT !.node = (new :> [x |-> x, prev |-> NULL, next |-> NULL]),
              !.head = new, !.tail = new, !.size = 1]
  ELSE
    LET r == CallCmp(c.cmp, Obj(x), Obj(c.node[c.tail].x)) IN
    IF r = 0 THEN c
    ELSE IF r = 1 THEN
      LET new == NewNode(c, x) IN
      [c EXCEPT !.node = (new :> [x |-> x, prev |-> c.tail, next |-> NULL])
                         @@ [@ EXCEPT ![c.tail].next = new],
                !.tail = new,
                !.size = Inc(@)]
    ELSE queues_enqueu_head(c, x)

\* body scan of queues_enqueu_r
RECURSIVE enqueu_r_body(_, _, _, _)
enqueu_r_body(c, x, y, tmp) ==
  LET nx == c.node[tmp].next IN
  IF nx = NULL THEN c
  ELSE LET r == CallCmpR(c.cmp_r, Obj(x), Obj(c.node[nx].x), y) IN
       CASE r = -1 ->
              LET new == NewNode(c, x) IN
              [c EXCEPT !.node = (new :> [x |-> x, prev |-> tmp, next |-> nx])
                                 @@ [@ EXCEPT ![nx].prev = new, ![tmp].next = new],
                        !.size = Inc(@)]
         [] r = 0 -> c
         [] r = 1 -> enqueu_r_body(c, x, y, nx)

queues_enqueu_r_head(c, x, y) ==
  LET r == CallCmpR(c.cmp_r, Obj(x), Obj(c.node[c.head].x), y) IN
  IF r = -1 THEN
    LET new == NewNode(c, x) IN
    [c EXCEPT !.node = (new :> [x |-> x, prev |-> NULL, next |-> c.head])
                       @@ [@ EXCEPT ![c.head].prev = new],
              !.head = new,
              !.size = Inc(@)]
  ELSE IF r = 0 THEN c
  ELSE enqueu_r_body(c, x, y, c.head)

queues_enqueu_r(c, x, y) ==
  IF c.head = NULL THEN
    LET new == NewNode(c, x) IN
    [c EXCEPT !.node = (new :> [x |-> x, prev |-> NULL, next |-> NULL]),
              !.head = new, !.tail = new, !.size = 1]
  ELSE
    LET r == CallCmpR(c.cmp_r, Obj(x), Obj(c.node[c.tail].x), y) IN
    IF r = 0 THEN c
    ELSE IF r = 1 THEN
      LET new == NewNode(c, x) IN
      [c EXCEPT !.node = (new :> [x |-> x, prev |-> c.tail, next |-> NULL])
                         @@ [@ EXCEPT ![c.tail].next = new],
                !.tail = new,
                !.size = Inc(@)]
    ELSE queues_enqueu_r_head(c, x, y)

\* queues_enqueu up to its body scan: the call returns from the empty case,
\* the tail check or the head check, or it reaches the scan with tmp = head
enqueu_enter(c, x) ==
  IF \/ c.head = NULL
     \/ CallCmp(c.cmp, Obj(x), Obj(c.node[c.tail].x)) \in {0, 1}
     \/ CallCmp(c.cmp, Obj(x), Obj(c.node[c.head].x)) \in {-1, 0}
  THEN [q |-> queues_enqueu(c, x), pc |-> "done", tmp |-> NULL]
  ELSE [q |-> c, pc |-> "body", tmp |-> c.head]

\* one pass of the body scan of queues_enqueu: the test of the while and the
\* switch on the result of the compare function.  The switch has the cases
\* -1, 0 and 1; on any other value no statement runs and tmp stays
enqueu_iter(c, x, tmp) ==
  LET nx == c.node[tmp].next IN
  IF nx = NULL THEN [q |-> c, pc |-> "done", tmp |-> tmp]
  ELSE LET r == CallCmp(c.cmp, Obj(x), Obj(c.node[nx].x)) IN
       IF r = -1 THEN
         LET new == NewNode(c, x) IN
         [q |-> [c EXCEPT !.node = (new :> [x |-> x, prev |-> tmp, next |-> nx])
                                   @@ [@ EXCEPT ![nx].prev = new, ![tmp].next = new],
                          !.size = Inc(@)],
          pc |-> "done", tmp |-> tmp]
       ELSE IF r = 0 THEN [q |-> c, pc |-> "done", tmp |-> tmp]
       ELSE IF r = 1 THEN [q |-> c, pc |-> "body", tmp |-> nx]
       ELSE [q |-> c, pc |-> "body", tmp |-> tmp]

\* variant of the loop of queues_find that gives up on a smaller entry
RECURSIVE find_loop_wrongexit(_, _, _)
find_loop_wrongexit(c, x, tmp) ==
  IF tmp = NULL THEN NULL
  ELSE LET r == CallCmp(c.cmp, Obj(x), Obj(c.node[tmp].x)) IN
       IF r = 1 THEN NULL
       ELSE IF r = 0 THEN c.node[tmp].x
       ELSE find_loop_wrongexit(c, x, c.node[tmp].next)

\* the loop of queues_find, tmp is the node under inspection
RECURSIVE find_loop(_, _, _)
find_loop(c, x, tmp) ==
  IF tmp = NULL THEN NULL
  ELSE LET r == CallCmp(c.cmp, Obj(x), Obj(c.node[tmp].x)) IN
       IF r = -1 THEN NULL
       ELSE IF r = 0 THEN c.node[tmp].x
       ELSE find_loop(c, x, c.node[tmp].next)

\* variant of queues_find that inspects the head entry only
queues_find_headonly(c, x) ==
  IF c = Nil THEN NULL
  ELSE IF c.head = NULL THEN NULL
  ELSE IF CallCmp(c.cmp, Obj(x), Obj(c.node[c.head].x)) = 0
       THEN c.node[c.head].x ELSE NULL

queues_find(c, x) ==
  IF c = Nil THEN NULL ELSE find_loop(c, x, c.head)

\* variant of the body scan of queues_remove with the two early exits swapped
RECURSIVE remove_body_flipped(_, _, _)
remove_body_flipped(c, x, tmp) ==
  IF tmp = c.tail THEN [q |-> c, ret |-> NULL]
  ELSE LET r == CallCmp(c.cmp, Obj(x), Obj(c.node[tmp].x)) IN
       CASE r = 1 -> [q |-> c, ret |-> NULL]
         [] r = 0 ->
              LET pv == c.node[tmp].prev
                  nx == c.node[tmp].next
              IN [q |-> [c EXCEPT
                           !.node = FreeNode([@ EXCEPT ![pv].next = nx,
                                                       ![nx].prev = pv], tmp),
                           !.size = Dec(@)],
                  ret |-> c.node[tmp].x]
         [] r = -1 -> remove_body_flipped(c, x, c.node[tmp].next)

\* body scan of queues_remove; the result is the chain and the returned pointer
RECURSIVE remove_body(_, _, _)
remove_body(c, x, tmp) ==
  IF tmp = c.tail THEN [q |-> c, ret |-> NULL]
  ELSE LET r == CallCmp(c.cmp, Obj(x), Obj(c.node[tmp].x)) IN
       CASE r = -1 -> [q |-> c, ret |-> NULL]
         [] r = 0 ->
              LET pv == c.node[tmp].prev
                  nx == c.node[tmp].next
              IN [q |-> [c EXCEPT
                           !.node = FreeNode([@ EXCEPT ![pv].next = nx,
                                                       ![nx].prev = pv], tmp),
                           !.size = Dec(@)],
                  ret |-> c.node[tmp].x]
         [] r = 1 -> remove_body(c, x, c.node[tmp].next)

queues_remove_tail(c, x) ==
  LET tmp == c.tail
      r == CallCmp(c.cmp, Obj(x), Obj(c.node[tmp].x))
  IN IF r = 0 THEN
       LET pv == c.node[tmp].prev IN
       [q |-> [c EXCEPT
                 !.node = FreeNode(IF pv # NULL THEN [@ EXCEPT ![pv].next = NULL]
                                   ELSE @, tmp),
                 !.tail = pv,
                 !.size = Dec(@)],
        ret |-> c.node[tmp].x]
     ELSE IF r = 1 THEN [q |-> c, ret |-> NULL]
     ELSE remove_body(c, x, c.node[c.head].next)

\* the head case leaves q->tail alone: after the only entry is removed, tail
\* still holds the address of the freed node
queues_remove(c, x) ==
  IF c = Nil THEN [q |-> c, ret |-> NULL]
  ELSE IF c.head = NULL THEN [q |-> c, ret |-> NULL]
  ELSE
    LET tmp == c.head
        r == CallCmp(c.cmp, Obj(x), Obj(c.node[tmp].x))
    IN IF r = -1 THEN [q |-> c, ret |-> NULL]
       ELSE IF r = 0 THEN
         LET nx == c.node[tmp].next IN
         [q |-> [c EXCEPT
                   !.node = FreeNode(IF nx # NULL THEN [@ EXCEPT ![nx].prev = NULL]
                                     ELSE @, tmp),
                   !.head = nx,
                   !.size = Dec(@)],
          ret |-> c.node[tmp].x]
       ELSE queues_remove_tail(c, x)

\* queues_remove up to its body scan: the call returns from the null and
\* empty tests, the head check or the tail check, or it reaches the scan with
\* tmp = head->next
remove_enter(c, x) ==
  IF \/ c = Nil
     \/ c.head = NULL
     \/ CallCmp(c.cmp, Obj(x), Obj(c.node[c.head].x)) \in {-1, 0}
     \/ CallCmp(c.cmp, Obj(x), Obj(c.node[c.tail].x)) \in {0, 1}
  THEN [q |-> queues_remove(c, x).q, ret |-> queues_remove(c, x).ret,
        pc |-> "done", tmp |-> NULL]
  ELSE [q |-> c, ret |-> NULL, pc |-> "body", tmp |-> c.node[c.head].next]

\* the ways one pass of the body scan of queues_remove can go: the test of
\* the while and the switch on the result of the compare function.  In a
\* chain of one node tmp is NULL and differs from tail, and the pass reads
\* tmp->x through the null pointer; on a result other than -1, 0 and 1 no
\* statement runs and tmp stays
remove_iter(c, x, tmp) ==
  IF tmp = c.tail THEN {[q |-> c, ret |-> NULL, pc |-> "done", tmp |-> tmp]}
  ELSE IF tmp = NULL
  THEN {[q |-> c, ret |-> NULL, pc |-> e, tmp |-> tmp] : e \in {"signal", "undefined"}}
  ELSE LET r == CallCmp(c.cmp, Obj(x), Obj(c.node[tmp].x)) IN
       IF r = -1 THEN {[q |-> c, ret |-> NULL, pc |-> "done", tmp |-> tmp]}
       ELSE IF r = 0 THEN
         LET pv == c.node[tmp].prev
             nx == c.node[tmp].next
         IN {[q |-> [c EXCEPT
                       !.node = FreeNode([@ EXCEPT ![pv].next = nx,
                                                   ![nx].prev = pv], tmp),
                       !.size = Dec(@)],
              ret |-> c.node[tmp].x, pc |-> "done", tmp |-> tmp]}
       ELSE IF r = 1
       THEN {[q |-> c, ret |-> NULL, pc |-> "body", tmp |-> c.node[tmp].next]}
       ELSE {[q |-> c, ret |-> NULL, pc |-> "body", tmp |-> tmp]}

queues_size(c) == c.size

queues_dequeue_front(c) ==
  IF c.head = NULL THEN [q |-> c, ret |-> NULL]
  ELSE
    LET tmp == c.head
        nx == c.node[tmp].next
    IN [q |-> [c EXCEPT
                 !.tail = IF nx = NULL THEN NULL ELSE @,
                 !.head = nx,
                 !.node = FreeNode(IF nx # NULL THEN [@ EXCEPT ![nx].prev = NULL]
                                   ELSE @, tmp),
                 !.size = Dec(@)],
        ret |-> c.node[tmp].x]

\* queues_dequeue_back when q->tail is NULL or the address of a linked node
dequeue_back_linked(c) ==
  IF c.tail = NULL THEN [q |-> c, ret |-> NULL]
  ELSE
    LET tmp == c.tail
        pv == c.node[tmp].prev
    IN [q |-> [c EXCEPT
                 !.head = IF pv = NULL THEN NULL ELSE @,
                 !.tail = pv,
                 !.node = FreeNode(IF pv # NULL THEN [@ EXCEPT ![pv].next = NULL]
                                   ELSE @, tmp),
                 !.size = Dec(@)],
        ret |-> c.node[tmp].x]

\* the ways a call of queues_dequeue_back can end.  When q->tail holds the
\* address of a node that was freed, the call reads prev and x from the freed
\* node and frees it a second time: the allocator may abort the process, or
\* the call returns whatever the freed memory held
queues_dequeue_back(c) ==
  IF c.tail # NULL /\ c.tail \notin DOMAIN c.node
  THEN {[q |-> c, ret |-> NULL, end |-> "abort"]}
         \cup {[q |-> [c EXCEPT !.head = NULL, !.tail = NULL, !.size = Dec(@)],
                ret |-> r, end |-> "undefined"] : r \in Ptrs \cup {NULL}}
  ELSE {[q |-> dequeue_back_linked(c).q, ret |-> dequeue_back_linked(c).ret,
         end |-> "return"]}

\* a callback for queues_map: it notes the entry it is handed in its own
\* static state g and answers -2 on the key g.stop, 0 on any other odd key
\* and 1 on any other even key; the entry is only read
visit(x, g) ==
  [x |-> x, g |-> [g EXCEPT !.seen = Append(@, x)],
   ret |-> IF Obj(x)[1] = g.stop THEN -2
           ELSE IF Obj(x)[1] % 2 = 1 THEN 0 ELSE 1]

\* a call through the function pointer apply(&tmp->x): the value left in
\* tmp->x, the static state of the callback, and the returned int
CallApply1(f, x, g) == CASE f = "visit" -> visit(x, g)

\* variant of the loop of queues_map that also stops on the result 0
RECURSIVE map_loop_le(_, _, _, _)
map_loop_le(c, apply, g, tmp) ==
  IF tmp = NULL THEN [q |-> c, g |-> g, ret |-> 1]
  ELSE LET a == CallApply1(apply, c.node[tmp].x, g)
           c1 == [c EXCEPT !.node[tmp].x = a.x]
       IN IF a.ret <= 0 THEN [q |-> c1, g |-> a.g, ret |-> -1]
          ELSE map_loop_le(c1, apply, a.g, c1.node[tmp].next)

\* the loop of queues_map, tmp is the node to visit next
RECURSIVE map_loop(_, _, _, _)
map_loop(c, apply, g, tmp) ==
  IF tmp = NULL THEN [q |-> c, g |-> g, ret |-> 1]
  ELSE LET a == CallApply1(apply, c.node[tmp].x, g)
           c1 == [c EXCEPT !.node[tmp].x = a.x]
       IN IF a.ret < 0 THEN [q |-> c1, g |-> a.g, ret |-> -1]
          ELSE map_loop(c1, apply, a.g, c1.node[tmp].next)

queues_map(c, apply, g) ==
  IF c = Nil THEN [q |-> c, g |-> g, ret |-> 1]
  ELSE map_loop(c, apply, g, c.head)

----------------------------------------------------------------------------
(* deepqueues.c: the deep chain.  A node's x is the address of a payload    *)
(* block the chain malloc'ed; h is the memory in use, the caller's buffers  *)
(* and the allocated blocks, each address with the bytes stored there.      *)

\* the caller's buffers as the caller filled them
CallerMem == [p \in Ptrs |-> Obj(p)]

\* malloc(q->size) of the payload block that will hold a copy of x: an
\* address that is neither a caller's buffer nor a block in use; the search
\* starts at an address picked by the key of the record
NewBlock(h, x) == FirstFit(DOMAIN h \cup Ptrs, h[x][1] + Cardinality(Ptrs))

\* malloc of the link node that will hold the copy of x
DNewNode(c, h, x) == FirstFit(DOMAIN c.node, h[x][1])

\* memcpy(dst, x, q->size) into a fresh block
CopyIn(c, h, x) == (NewBlock(h, x) :> SubSeq(h[x], 1, c.size)) @@ h

dqueues_new(cmp, cmp_r, size) ==
  IF cmp = NoFn /\ cmp_r = NoFn THEN Fatal
  ELSE [size |-> size, nmems |-> 0, cmp |-> cmp, cmp_r |-> cmp_r,
        head |-> NULL, tail |-> NULL, node |-> <<>>]

\* the payload addresses met from node n following next
RECURSIVE DWalkNext(_, _, _)
DWalkNext(c, h, n) ==
  IF n = NULL THEN <<>>
  ELSE <<c.node[n].x>> \o DWalkNext(c, h, c.node[n].next)

\* head-to-tail traversal of a deep chain: the payload addresses in order
DTraverse(c, h) == DWalkNext(c, h, c.head)

RECURSIVE denqueu_body(_, _, _, _)
denqueu_body(c, h, x, tmp) ==
  LET nx == c.node[tmp].next IN
  IF nx = NULL THEN [q |-> c, heap |-> h]
  ELSE LET r == CallCmp(c.cmp, h[x], h[c.node[nx].x]) IN
       CASE r = -1 ->
              LET new == DNewNode(c, h, x) IN
              [q |-> [c EXCEPT
                        !.node = (new :> [x |-> NewBlock(h, x), prev |-> tmp, next |-> nx])
                                 @@ [@ EXCEPT ![nx].prev = new, ![tmp].next = new],
                        !.nmems = Inc(@)],
               heap |-> CopyIn(c, h, x)]
         [] r = 0 -> [q |-> c, heap |-> h]
         [] r = 1 -> denqueu_body(c, h, x, nx)

\* variant of the head check that takes an equal value for a smaller one
dqueues_enqueu_head_le(c, h, x) ==
  LET r == CallCmp(c.cmp, h[x], h[c.node[c.head].x]) IN
  IF r <= 0 THEN
    LET new == DNewNode(c, h, x) IN
    [q |-> [c EXCEPT
              !.node = (new :> [x |-> NewBlock(h, x), prev |-> NULL, next |-> c.head])
                       @@ [@ EXCEPT ![c.head].prev = new],
              !.head = new,
              !.nmems = Inc(@)],
     heap |-> CopyIn(c, h, x)]
  ELSE denqueu_body(c, h, x, c.head)

dqueues_enqueu_head(c, h, x) ==
  LET r == CallCmp(c.cmp, h[x], h[c.node[c.head].x]) IN
  IF r = -1 THEN
    LET new == DNewNode(c, h, x) IN
    [q |-> [c EXCEPT
              !.node = (new :> [x |-> NewBlock(h, x), prev |-> NULL, next |-> c.head])
                       @@ [@ EXCEPT ![c.head].prev = new],
              !.head = new,
              !.nmems = Inc(@)],
     heap |-> CopyIn(c, h, x)]
  ELSE IF r = 0 THEN [q |-> c, heap |-> h]
  ELSE denqueu_body(c, h, x, c.head)

\* variant of dqueues_enqueu that links the caller's pointer, as the shallow
\* chain does, where it should link a copy
dqueues_enqueu_alias(c, h, x) ==
  IF c.head = NULL THEN
    LET new == DNewNode(c, h, x) IN
    [q |-> [c EXCEPT
              !.node = (new :> [x |-> x, prev |-> NULL, next |-> NULL]),
              !.head = new, !.tail = new, !.nmems = 1],
     heap |-> h]
  ELSE
    LET r == CallCmp(c.cmp, h[x], h[c.node[c.tail].x]) IN
    IF r = 0 THEN [q |-> c, heap |-> h]
    ELSE IF r = 1 THEN
      LET new == DNewNode(c, h, x) IN
      [q |-> [c EXCEPT
                !.node = (new :> [x |-> x, prev |-> c.tail, next |-> NULL])
                         @@ [@ EXCEPT ![c.tail].next = new],
                !.tail = new,
                !.nmems = Inc(@)],
       heap |-> h]
    ELSE dqueues_enqueu_head(c, h, x)

dqueues_enqueu(c, h, x) ==
  IF c.head = NULL THEN
    LET new == DNewNode(c, h, x) IN
    [q |-> [c EXCEPT
              !.node = (new :> [x |-> NewBlock(h, x), prev |-> NULL, next |-> NULL]),
              !.head = new, !.tail = new, !.nmems = 1],
     heap |-> CopyIn(c, h, x)]
  ELSE
    LET r == CallCmp(c.cmp, h[x], h[c.node[c.tail].x]) IN
    IF r = 0 THEN [q |-> c, heap |-> h]
    ELSE IF r = 1 THEN
      LET new == DNewNode(c, h, x) IN
      [q |-> [c EXCEPT
                !.node = (new :> [x |-> NewBlock(h, x), prev |-> c.tail, next |-> NULL])
                         @@ [@ EXCEPT ![c.tail].next = new],
                !.tail = new,
                !.nmems = Inc(@)],
       heap |-> CopyIn(c, h, x)]
    ELSE dqueues_enqueu_head(c, h, x)

\* the loop of dqueues_find, tmp is the node under inspection
RECURSIVE dfind_loop(_, _, _, _)
dfind_loop(c, h, x, tmp) ==
  IF tmp = NULL THEN NULL
  ELSE LET r == CallCmp(c.cmp, h[x], h[c.node[tmp].x]) IN
       IF r = -1 THEN NULL
       ELSE IF r = 0 THEN c.node[tmp].x
       ELSE dfind_loop(c, h, x, c.node[tmp].next)

\* the result is the address of the chain's own block
dqueues_find(c, h, x) ==
  IF c = Nil THEN NULL ELSE dfind_loop(c, h, x, c.head)

\* body scan of dqueues_remove
RECURSIVE dremove_body(_, _, _, _)
dremove_body(c, h, x, tmp) ==
  IF tmp = c.tail THEN [q |-> c, ret |-> NULL]
  ELSE LET r == CallCmp(c.cmp, h[x], h[c.node[tmp].x]) IN
       CASE r = -1 -> [q |-> c, ret |-> NULL]
         [] r = 0 ->
              LET pv == c.node[tmp].prev
                  nx == c.node[tmp].next
              IN [q |-> [c EXCEPT
                           !.node = FreeNode([@ EXCEPT ![pv].next = nx,
                                                       ![nx].prev = pv], tmp),
                           !.nmems = Dec(@)],
                  ret |-> c.node[tmp].x]
         [] r = 1 -> dremove_body(c, h, x, c.node[tmp].next)

dqueues_remove_tail(c, h, x) ==
  LET tmp == c.tail
      r == CallCmp(c.cmp, h[x], h[c.node[tmp].x])
  IN IF r = 0 THEN
       LET pv == c.node[tmp].prev IN
       [q |-> [c EXCEPT
                 !.node = FreeNode(IF pv # NULL THEN [@ EXCEPT ![pv].next = NULL]
                                   ELSE @, tmp),
                 !.tail = pv,
                 !.nmems = Dec(@)],
        ret |-> c.node[tmp].x]
     ELSE IF r = 1 THEN [q |-> c, ret |-> NULL]
     ELSE dremove_body(c, h, x, c.node[c.head].next)

\* the removed payload block is handed to the caller, not freed
dqueues_remove(c, h, x) ==
  IF c = Nil THEN [q |-> c, ret |-> NULL]
  ELSE IF c.head = NULL THEN [q |-> c, ret |-> NULL]
  ELSE
    LET tmp == c.head
        r == CallCmp(c.cmp, h[x], h[c.node[tmp].x])
    IN IF r = -1 THEN [q |-> c, ret |-> NULL]
       ELSE IF r = 0 THEN
         LET nx == c.node[tmp].next IN
         [q |-> [c EXCEPT
                   !.node = FreeNode(IF nx # NULL THEN [@ EXCEPT ![nx].prev = NULL]
                                     ELSE @, tmp),
                   !.head = nx,
                   !.nmems = Dec(@)],
          ret |-> c.node[tmp].x]
       ELSE dqueues_remove_tail(c, h, x)

dqueues_size(c) == c.nmems

\* the loop of dqueues_free: the head node is unlinked and freed until head
\* is NULL; free is called on the node only, never on the block x it points at
RECURSIVE dfree_loop(_)
dfree_loop(c) ==
  IF c.head = NULL THEN c
  ELSE LET tmp == c.head IN
       dfree_loop([c EXCEPT !.head = c.node[tmp].next,
                            !.node = FreeNode(@, tmp)])

\* the result is the handle, the memory and the link nodes left allocated
dqueues_free(c, h) ==
  IF c = Nil THEN [q |-> Nil, heap |-> h, nodes |-> {}]
  ELSE [q |-> Nil, heap |-> h, nodes |-> DOMAIN dfree_loop(c).node]

----------------------------------------------------------------------------
(* hashtabs.c: the directory.  A maps the slots that hold a chain to that   *)
(* chain; a slot outside DOMAIN A holds the null handle calloc left there.  *)

NPRIMES == 45

\* _primes[i] of the source is primes[i + 1]
primes == <<
  11, 17, 29, 43, 67, 101, 151, 227, 347, 521, 787, 1181, 1777, 2671, 4007,
  6011, 9029, 13553, 20333, 30509, 45763, 68659, 103001, 154501, 231779, 347671,
  521519, 782297, 1173463, 1760203, 2640317, 3960497, 5940761, 8911141, 13366711,
  20050081, 30075127, 45112693, 67669079, 101503627, 152255461, 228383273,
  342574909, 513862367, 770793589, SIZE_MAX >>

\* variant of the loop of _get_cap_index that stops at a prime equal to n
RECURSIVE cap_index_from_gt(_, _)
cap_index_from_gt(n, i) ==
  IF i < NPRIMES /\ n > primes[i + 1] THEN cap_index_from_gt(n, i + 1) ELSE i

\* the loop of _get_cap_index, i is the loop counter
RECURSIVE cap_index_from(_, _)
cap_index_from(n, i) ==
  IF i < NPRIMES /\ n >= primes[i + 1] THEN cap_index_from(n, i + 1) ELSE i

\* variant of _get_cap_index whose scan starts at the second prime
get_cap_index_skip(n) == cap_index_from(n, 1)

get_cap_index(n) == cap_index_from(n, 0)

\* user hash functions over the bytes of an entry
hash_x11(a) == 11 * a[1]
hash_half(a) == a[1] \div 2

CallHash(f, a) == CASE f = "hash_x11" -> hash_x11(a)
                    [] f = "hash_half" -> hash_half(a)

\* a user hash function with a context argument: the context is a seed
hash_seed(a, n) == a[1] + n

CallHashR(f, a, n) == CASE f = "hash_seed" -> hash_seed(a, n)

\* variant of hashtabs_new that steps one entry further up the ladder
hashtabs_new_further(cmp, cmp_r, hash, hash_r, n) ==
  [size |-> 0, load |-> 0, cap_index |-> get_cap_index(n) + 1,
   cmp |-> cmp, cmp_r |-> cmp_r, hash |-> hash, hash_r |-> hash_r,
   A |-> <<>>]

hashtabs_new(cmp, cmp_r, hash, hash_r, n) ==
  [size |-> 0, load |-> 0, cap_index |-> get_cap_index(n),
   cmp |-> cmp, cmp_r |-> cmp_r, hash |-> hash, hash_r |-> hash_r,
   A |-> <<>>]

hashtabs_capacity(d) == primes[d.cap_index + 1]

\* t->A[i]
Slot(d, i) == IF i \in DOMAIN d.A THEN d.A[i] ELSE Nil

\* variant of hashtabs_insert that counts an entry only when the chain took it
hashtabs_insert_counted(d, x) ==
  LET val == CallHash(d.hash, Obj(x)) % primes[d.cap_index + 1]
      d1 == IF Slot(d, val) = Nil
            THEN [d EXCEPT !.load = Inc(@),
                           !.A = (val :> queues_new(d.cmp, d.cmp_r)) @@ @]
            ELSE d
      c == queues_enqueu(d1.A[val], x)
  IN [d1 EXCEPT !.A[val] = c,
                !.size = IF queues_size(c) = queues_size(d1.A[val]) THEN @ ELSE Inc(@)]

\* variant of hashtabs_insert that takes the slot after the one of the hash
hashtabs_insert_shifted(d, x) ==
  LET val == (CallHash(d.hash, Obj(x)) + 1) % primes[d.cap_index + 1]
      d1 == IF Slot(d, val) = Nil
            THEN [d EXCEPT !.load = Inc(@),
                           !.A = (val :> queues_new(d.cmp, d.cmp_r)) @@ @]
            ELSE d
  IN [d1 EXCEPT !.A[val] = queues_enqueu(@, x),
                !.size = Inc(@)]

\* variant of hashtabs_insert that leaves the load counter alone
hashtabs_insert_noload(d, x) ==
  LET val == CallHash(d.hash, Obj(x)) % primes[d.cap_index + 1]
      d1 == IF Slot(d, val) = Nil
            THEN [d EXCEPT !.A = (val :> queues_new(d.cmp, d.cmp_r)) @@ @]
            ELSE d
  IN [d1 EXCEPT !.A[val] = queues_enqueu(@, x),
                !.size = Inc(@)]

hashtabs_insert(d, x) ==
  LET val == CallHash(d.hash, Obj(x)) % primes[d.cap_index + 1]
      d1 == IF Slot(d, val) = Nil
            THEN [d EXCEPT !.load = Inc(@),
                           !.A = (val :> queues_new(d.cmp, d.cmp_r)) @@ @]
            ELSE d
  IN [d1 EXCEPT !.A[val] = queues_enqueu(@, x),
                !.size = Inc(@)]

hashtabs_insert_r(d, x, hash_arg, queues_arg) ==
  LET val == CallHashR(d.hash_r, Obj(x), hash_arg) % primes[d.cap_index + 1]
      d1 == IF Slot(d, val) = Nil
            THEN [d EXCEPT !.load = Inc(@),
                           !.A = (val :> queues_new(d.cmp, d.cmp_r)) @@ @]
            ELSE d
  IN [d1 EXCEPT !.A[val] = queues_enqueu_r(@, x, queues_arg),
                !.size = Inc(@)]

\* the slots below the capacity that hold a chain, in index order; on every
\* other slot the loops of the directory call a chain function with the null
\* handle, which returns at once
RECURSIVE SortedSlots(_)
SortedSlots(S) ==
  IF S = {} THEN <<>> ELSE <<Min(S)>> \o SortedSlots(S \ {Min(S)})

ChainSlots(d) == SortedSlots({i \in DOMAIN d.A : i < primes[d.cap_index + 1]})

\* variant of the loop of hashtabs_remove that forgets the size counter
RECURSIVE remove_scan_nosize(_, _, _)
remove_scan_nosize(d, x, slots) ==
  IF slots = <<>> THEN [t |-> d, ret |-> NULL]
  ELSE LET i == Head(slots)
           r == queues_remove(d.A[i], x)
       IN IF r.ret # NULL
          THEN [t |-> [d EXCEPT !.A[i] = r.q,
                                !.load = IF queues_size(r.q) = 0 THEN Dec(@) ELSE @],
                ret |-> r.ret]
          ELSE remove_scan_nosize([d EXCEPT !.A[i] = r.q], x, Tail(slots))

\* the loop of hashtabs_remove over the slots still to visit
RECURSIVE remove_scan(_, _, _)
remove_scan(d, x, slots) ==
  IF slots = <<>> THEN [t |-> d, ret |-> NULL]
  ELSE LET i == Head(slots)
           r == queues_remove(d.A[i], x)
       IN IF r.ret # NULL
          THEN [t |-> [d EXCEPT !.A[i] = r.q,
                                !.size = Dec(@),
                                !.load = IF queues_size(r.q) = 0 THEN Dec(@) ELSE @],
                ret |-> r.ret]
          ELSE remove_scan([d EXCEPT !.A[i] = r.q], x, Tail(slots))

hashtabs_remove(d, x) == remove_scan(d, x, ChainSlots(d))

\* variant of the loop of hashtabs_find that looks into the slot of the hash
\* of x only
find_scan_slot(d, x, slots) ==
  queues_find(Slot(d, CallHash(d.hash, Obj(x)) % primes[d.cap_index + 1]), x)

\* the loop of hashtabs_find over the slots still to visit
RECURSIVE find_scan(_, _, _)
find_scan(d, x, slots) ==
  IF slots = <<>> THEN NULL
  ELSE LET ptr == queues_find(d.A[Head(slots)], x)
       IN IF ptr # NULL THEN ptr ELSE find_scan(d, x, Tail(slots))

hashtabs_find(d, x) == find_scan(d, x, ChainSlots(d))

hashtabs_size(d) == d.size

\* variant of hashtabs_loadfactor with the quotient upside down
hashtabs_loadfactor_inverted(d) == IF d.size = 0 THEN 0 ELSE d.load \div d.size

hashtabs_loadfactor(d) == IF d.load = 0 THEN 0 ELSE d.size \div d.load

\* variant of _rehash that moves the entry: it clears *x after the insert
rehash_cb_move(x, y) ==
  [x |-> NULL, y |-> [y EXCEPT !.t = hashtabs_insert(@, x)], ret |-> 1]

\* _rehash(x, y): inserts *x into the directory y->t; *x is only read
rehash_cb(x, y) ==
  [x |-> x, y |-> [y EXCEPT !.t = hashtabs_insert(@, x)], ret |-> 1]

\* a call through the function pointer apply(&tmp->x, y): the value left in
\* tmp->x, the context left behind y, and the returned int
CallApply(f, x, y) == CASE f = "_rehash" -> rehash_cb(x, y)

\* variant of the loop of queues_map_r that stops on any nonzero result
RECURSIVE map_r_loop_nonzero(_, _, _, _)
map_r_loop_nonzero(c, apply, y, tmp) ==
  IF tmp = NULL THEN [q |-> c, y |-> y, ret |-> 1]
  ELSE LET a == CallApply(apply, c.node[tmp].x, y)
           c1 == [c EXCEPT !.node[tmp].x = a.x]
       IN IF a.ret # 0 THEN [q |-> c1, y |-> a.y, ret |-> -1]
          ELSE map_r_loop_nonzero(c1, apply, a.y, c1.node[tmp].next)

\* the loop of queues_map_r, tmp is the node to visit next
RECURSIVE map_r_loop(_, _, _, _)
map_r_loop(c, apply, y, tmp) ==
  IF tmp = NULL THEN [q |-> c, y |-> y, ret |-> 1]
  ELSE LET a == CallApply(apply, c.node[tmp].x, y)
           c1 == [c EXCEPT !.node[tmp].x = a.x]
       IN IF a.ret < 0 THEN [q |-> c1, y |-> a.y, ret |-> -1]
          ELSE map_r_loop(c1, apply, a.y, c1.node[tmp].next)

queues_map_r(c, apply, y) ==
  IF c = Nil THEN [q |-> c, y |-> y, ret |-> 1]
  ELSE map_r_loop(c, apply, y, c.head)

\* the loop of hashtabs_rehash over the slots still to visit: d is the
\* directory being walked, y the rehash_t holding the new directory
RECURSIVE rehash_walk(_, _, _)
rehash_walk(d, y, slots) ==
  IF slots = <<>> THEN [old |-> d, new |-> y.t]
  ELSE LET i == Head(slots)
           m == queues_map_r(d.A[i], "_rehash", y)
       IN rehash_walk([d EXCEPT !.A[i] = m.q], m.y, Tail(slots))

\* the result is the directory walked, as the call leaves it, and the new one
hashtabs_rehash(d) ==
  rehash_walk(d,
              [t |-> hashtabs_new(d.cmp, d.cmp_r, d.hash, d.hash_r,
                                  primes[d.cap_index + 1]),
               hash_arg |-> NULL, queue_arg |-> NULL],
              ChainSlots(d))

\* variant of the loop of hashtabs_map that goes on to the next chain after
\* a chain walk was stopped
RECURSIVE map_walk_on(_, _, _, _)
map_walk_on(d, apply, g, slots) ==
  IF slots = <<>> THEN [t |-> d, g |-> g, ret |-> 1]
  ELSE LET i == Head(slots)
           m == queues_map(d.A[i], apply, g)
       IN map_walk_on([d EXCEPT !.A[i] = m.q], apply, m.g, Tail(slots))

\* the loop of hashtabs_map over the slots still to visit
RECURSIVE map_walk(_, _, _, _)
map_walk(d, apply, g, slots) ==
  IF slots = <<>> THEN [t |-> d, g |-> g, ret |-> 1]
  ELSE LET i == Head(slots)
           m == queues_map(d.A[i], apply, g)
       IN IF m.ret < 0 THEN [t |-> [d EXCEPT !.A[i] = m.q], g |-> m.g, ret |-> -1]
          ELSE map_walk([d EXCEPT !.A[i] = m.q], apply, m.g, Tail(slots))

hashtabs_map(d, apply, g) ==
  IF d = Nil THEN [t |-> d, g |-> g, ret |-> 1]
  ELSE map_walk(d, apply, g, ChainSlots(d))

\* hashtabs_map with a callback that collects the entries it is handed: the
\* entries in the order of a full traversal
RECURSIVE map_collect(_, _)
map_collect(d, slots) ==
  IF slots = <<>> THEN <<>>
  ELSE Traverse(d.A[Head(slots)]) \o map_collect(d, Tail(slots))

hashtabs_entries(d) == map_collect(d, ChainSlots(d))

----------------------------------------------------------------------------
(* deephashtabs.c: the deep directory.  Its field size is the record size   *)
(* handed to dhashtabs_new, nmems is the field meant to count the members.  *)

dhashtabs_new(cmp, cmp_r, hash, hash_r, n, size) ==
  [nmems |-> 0, size |-> size, load |-> 0, cap_index |-> get_cap_index(n),
   cmp |-> cmp, cmp_r |-> cmp_r, hash |-> hash, hash_r |-> hash_r,
   A |-> <<>>]

\* a chain created here copies t->size bytes per record, and t->size is
\* incremented at the end of every call; the result is the directory and the
\* memory
dhashtabs_insert(d, h, x) ==
  LET val == CallHash(d.hash, h[x]) % primes[d.cap_index + 1]
      d1 == IF Slot(d, val) = Nil
            THEN [d EXCEPT !.load = Inc(@),
                           !.A = (val :> dqueues_new(d.cmp, d.cmp_r, d.size)) @@ @]
            ELSE d
      r == dqueues_enqueu(d1.A[val], h, x)
  IN [t |-> [d1 EXCEPT !.A[val] = r.q, !.size = Inc(@)],
      heap |-> r.heap]

\* the loop of dhashtabs_remove over the slots still to visit
RECURSIVE dremove_scan(_, _, _, _)
dremove_scan(d, h, x, slots) ==
  IF slots = <<>> THEN [t |-> d, ret |-> NULL]
  ELSE LET i == Head(slots)
           r == dqueues_remove(d.A[i], h, x)
       IN IF r.ret # NULL
          THEN [t |-> [d EXCEPT !.A[i] = r.q,
                                !.size = Dec(@),
                                !.load = IF dqueues_size(r.q) = 0 THEN Dec(@) ELSE @],
                ret |-> r.ret]
          ELSE dremove_scan([d EXCEPT !.A[i] = r.q], h, x, Tail(slots))

dhashtabs_remove(d, h, x) == dremove_scan(d, h, x, ChainSlots(d))

dhashtabs_size(d) == d.size

\* the loop of dhashtabs_free over the slots still to visit: every chain is
\* torn down by dqueues_free
RECURSIVE dfree_walk(_, _, _)
dfree_walk(d, h, slots) ==
  IF slots = <<>> THEN [heap |-> h, nodes |-> {}]
  ELSE LET r == dqueues_free(d.A[Head(slots)], h)
           s == dfree_walk(d, r.heap, Tail(slots))
       IN [heap |-> s.heap, nodes |-> r.nodes \cup s.nodes]

\* then the chain array and the directory are freed and the handle is NULL
dhashtabs_free(d, h) ==
  IF d = Nil THEN [t |-> Nil, heap |-> h, nodes |-> {}]
  ELSE LET r == dfree_walk(d, h, ChainSlots(d))
       IN [t |-> Nil, heap |-> r.heap, nodes |-> r.nodes]

\* variant of _rehash that leaves the entry out of the new directory
drehash_cb_skip(x, y) == [x |-> x, y |-> y, ret |-> 1]

\* _rehash(x, y) of deephashtabs.c: inserts *x, the address of a payload
\* block of the directory walked, into the directory y->t; y carries the
\* memory the insert works on
drehash_cb(x, y) ==
  LET r == dhashtabs_insert(y.t, y.heap, x)
  IN [x |-> x, y |-> [y EXCEPT !.t = r.t, !.heap = r.heap], ret |-> 1]

DCallApply(f, x, y) == CASE f = "_rehash" -> drehash_cb(x, y)

\* the loop of dqueues_map_r, tmp is the node to visit next
RECURSIVE dmap_r_loop(_, _, _, _)
dmap_r_loop(c, apply, y, tmp) ==
  IF tmp = NULL THEN [q |-> c, y |-> y, ret |-> 1]
  ELSE LET a == DCallApply(apply, c.node[tmp].x, y)
           c1 == [c EXCEPT !.node[tmp].x = a.x]
       IN IF a.ret < 0 THEN [q |-> c1, y |-> a.y, ret |-> -1]
          ELSE dmap_r_loop(c1, apply, a.y, c1.node[tmp].next)

dqueues_map_r(c, apply, y) ==
  IF c = Nil THEN [q |-> c, y |-> y, ret |-> 1]
  ELSE dmap_r_loop(c, apply, y, c.head)

\* the loop of dhashtabs_rehash over the slots still to visit
RECURSIVE drehash_walk(_, _, _)
drehash_walk(d, y, slots) ==
  IF slots = <<>> THEN [old |-> d, new |-> y.t, heap |-> y.heap]
  ELSE LET i == Head(slots)
           m == dqueues_map_r(d.A[i], "_rehash", y)
       IN drehash_walk([d EXCEPT !.A[i] = m.q], m.y, Tail(slots))

\* the new directory is created with the field size of the old one as its
\* record size; the result is the directory walked, the new one, the memory
dhashtabs_rehash(d, h) ==
  drehash_walk(d,
               [t |-> dhashtabs_new(d.cmp, d.cmp_r, d.hash, d.hash_r,
                                    primes[d.cap_index + 1], d.size),
                hash_arg |-> NULL, queue_arg |-> NULL, heap |-> h],
               ChainSlots(d))

\* the loop of dhashtabs_find over the slots still to visit
RECURSIVE dfind_scan(_, _, _, _)
dfind_scan(d, h, x, slots) ==
  IF slots = <<>> THEN NULL
  ELSE LET ptr == dqueues_find(d.A[Head(slots)], h, x)
       IN IF ptr # NULL THEN ptr ELSE dfind_scan(d, h, x, Tail(slots))

dhashtabs_find(d, h, x) == dfind_scan(d, h, x, ChainSlots(d))

----------------------------------------------------------------------------
(* staticstacks.h: the stack of fixed capacity.  Its data array is the     *)
(* block at address x; mem holds the bytes written to it, by offset.       *)

\* the address malloc returns for the data array
StackBase == 64

\* sstacks_new(s, n, capacity): room for capacity + 1 records of n bytes
sstacks_new(n, capacity) ==
  [size |-> n, nmem |-> 0, x |-> StackBase, top |-> StackBase,
   bytes |-> (capacity + 1) * n, mem |-> <<>>]

\* memcpy(dst, x, n) into the data array: the bytes of the caller's object
\* x land at the offsets dst - s->x + 1 ..
stack_copy(s, dst, x) ==
  [o \in (DOMAIN s.mem) \cup {dst - s.x + i : i \in 1 .. s.size} |->
     IF o - (dst - s.x) \in 1 .. s.size THEN Obj(x)[o - (dst - s.x)] ELSE s.mem[o]]

\* sstacks_push(s, x): memcpy(s->top, x, s->size), s->top += s->size, s->nmem++
sstacks_push(s, x) ==
  [s EXCEPT !.mem = stack_copy(s, s.top, x),
            !.top = @ + s.size,
            !.nmem = Inc(@)]

\* variant of sstacks_pop that leaves the counter alone
sstacks_pop_nocount(s) ==
  [s |-> [s EXCEPT !.top = @ - s.size], ret |-> s.top - s.size]

\* sstacks_pop(s): s->nmem--, s->top -= s->size, and the value is s->top
sstacks_pop(s) ==
  [s |-> [s EXCEPT !.nmem = Dec(@), !.top = @ - s.size], ret |-> s.top - s.size]

sstacks_empty(s) == s.x = s.top

sstacks_size(s) == s.nmem

\* the n bytes of the record at address p of the data array
stack_read(s, p) == [i \in 1 .. s.size |-> s.mem[p - s.x + i]]

----------------------------------------------------------------------------
(* arrays.c: the dynamic array.  Its data array is a block of `block`      *)
(* bytes; mem holds the bytes written to it, by offset.  A call that       *)
(* stores outside the block has undefined behaviour.                       *)

\* how a call ends that stored outside the block: it returns with the
\* memory behind the block damaged, or the process is killed
Overrun == {"damaged", "signal"}

\* arrays_new(size, capacity); the allocations are taken to succeed
arrays_new(size, capacity) ==
  [size |-> size, nmem |-> 0, capacity |-> capacity,
   block |-> size * capacity, mem |-> <<>>]

\* realloc(a->x, a->size * nmem) after a->capacity = nmem; a->nmem is not
\* touched.  realloc to 0 bytes may free the block and return NULL, which
\* the function takes for a failure and ends in error(1, ...)
arrays_resize(a, nmem) ==
  LET a1 == [a EXCEPT !.capacity = nmem,
                      !.block = a.size * nmem,
                      !.mem = [o \in {p \in DOMAIN a.mem : p <= a.size * nmem}
                                 |-> a.mem[o]]]
  IN IF a.size * nmem = 0
     THEN {[end |-> "exit", a |-> a], [end |-> "return", a |-> a1]}
     ELSE {[end |-> "return", a |-> a1]}

\* memcpy(a->x + a->nmem * a->size, x, a->size); a->nmem++: the outcomes,
\* with the index stored at
array_store(a, x, ret) ==
  LET at == a.nmem * a.size
  IN IF at + a.size <= a.block
     THEN {[end |-> "return", ret |-> ret, index |-> a.nmem,
            a |-> [a EXCEPT !.mem = [o \in (DOMAIN a.mem) \cup {at + i : i \in 1 .. a.size}
                                       |-> IF o > at THEN Obj(x)[o - at] ELSE a.mem[o]],
                            !.nmem = Inc(@)]]}
     ELSE {[end |-> e, ret |-> ret, index |-> a.nmem, a |-> a] : e \in Overrun}

arrays_push(a, x) ==
  IF a.nmem = a.capacity
  THEN {[end |-> "return", ret |-> -1, index |-> NULL - 1, a |-> a]}
  ELSE array_store(a, x, 1)

\* the capacity arrays_dynpush grows a full array to
dynpush_grow(nmem) ==
  IF nmem = 0 THEN 1 ELSE IF nmem = 1 THEN 2 ELSE (3 * nmem) \div 2

arrays_dynpush(a, x) ==
  IF a.nmem = a.capacity
  THEN UNION {IF r.end = "return" THEN array_store(r.a, x, NULL)
              ELSE {[end |-> r.end, ret |-> NULL, index |-> NULL - 1, a |-> r.a]}
              : r \in arrays_resize(a, dynpush_grow(a.nmem))}
  ELSE array_store(a, x, NULL)

arrays_nmem(a) == a.nmem

arrays_capacity(a) == a.capacity

----------------------------------------------------------------------------
(* bit_sets.h: sets of m setwords of 64 bits.  A setword is modelled by    *)
(* the set of the positions of its one bits.                               *)

WORDSIZE == 64

\* _BITTCOUNT[(x) >> 8k & 0xFF]: the number of one bits in byte k of x
ByteCount(x, k) == Cardinality({b \in x : b \div 8 = k})

\* _POPCOUNT(x): the sum of the table entries of the eight bytes
RECURSIVE popcount_from(_, _)
popcount_from(x, k) ==
  IF k = WORDSIZE \div 8 THEN 0 ELSE ByteCount(x, k) + popcount_from(x, k + 1)

POPCOUNT(x) == popcount_from(x, 0)

\* _WINTERSECT(word1, word2): word1 & word2
WINTERSECT(word1, word2) == word1 \cap word2

WINTERSECTSIZE(word1, word2) == POPCOUNT(WINTERSECT(word1, word2))

\* the loop of bit_intersect, i is the word to add next
RECURSIVE intersect_loop(_, _, _, _, _, _)
intersect_loop(s1, s2, m, num, i, count) ==
  IF i = m THEN 1
  ELSE LET c == count + WINTERSECTSIZE(s1[i + 1], s2[i + 1])
       IN IF c > num THEN -1 ELSE intersect_loop(s1, s2, m, num, i + 1, c)

bit_intersect(s1, s2, m, num) == intersect_loop(s1, s2, m, num, 0, 0)

----------------------------------------------------------------------------
(* The client of a chain *)

\* no stack, no array and no bit sets
OtherIdle ==
  /\ stack = Nil /\ array = Nil /\ sets = Nil
  /\ call = [name |-> "none"]

Spoiled == [pristine |-> FALSE, keys |-> {}]

TabIdle ==
  /\ t = Nil /\ t2 = Nil /\ budget = 0
  /\ op = [name |-> "none", x |-> NULL, ret |-> NULL]
  /\ hist = Spoiled

\* the entries of the live chain, head to tail: the stored pointer and the
\* bytes behind it
Entries ==
  IF live = "queues"
  THEN [i \in 1 .. Len(Traverse(q)) |->
          [ptr |-> Traverse(q)[i], bytes |-> Obj(Traverse(q)[i])]]
  ELSE [i \in 1 .. Len(DTraverse(dq, heap)) |->
          [ptr |-> DTraverse(dq, heap)[i], bytes |-> heap[DTraverse(dq, heap)[i]]]]

ChainSize == IF live = "queues" THEN queues_size(q) ELSE dqueues_size(dq)

InitQ ==
  /\ live \in {"queues", "dqueues"}
  /\ q = IF live = "queues" THEN queues_new("cmp_key", NoFn) ELSE Nil
  /\ dq = IF live = "dqueues" THEN dqueues_new("cmp_key", NoFn, RecSize) ELSE Nil
  /\ heap = IF live = "dqueues" THEN CallerMem ELSE <<>>
  /\ qop = [name |-> "new", x |-> NULL, ret |-> NULL, pre |-> <<>>, psize |-> 0]
  /\ TabIdle
  /\ OtherIdle

QEnqueu(x) ==
  /\ live = "queues"
  /\ ChainSize < MaxLen
  /\ q' = queues_enqueu(q, x)
  /\ qop' = [name |-> "enqueu", x |-> x, ret |-> NULL,
             pre |-> Entries, psize |-> ChainSize]
  /\ UNCHANGED <<live, dq, heap>>
  /\ UNCHANGED tvars
  /\ UNCHANGED ovars

QRemove(x) ==
  /\ live = "queues"
  /\ LET r == queues_remove(q, x) IN
       /\ q' = r.q
       /\ qop' = [name |-> "remove", x |-> x, ret |-> r.ret,
                  pre |-> Entries, psize |-> ChainSize]
  /\ UNCHANGED <<live, dq, heap>>
  /\ UNCHANGED tvars
  /\ UNCHANGED ovars

DQEnqueu(x) ==
  /\ live = "dqueues"
  /\ x \in DOMAIN heap
  /\ ChainSize < MaxLen
  /\ LET r == dqueues_enqueu(dq, heap, x) IN
       /\ dq' = r.q
       /\ heap' = r.heap
  /\ qop' = [name |-> "enqueu", x |-> x, ret |-> NULL,
             pre |-> Entries, psize |-> ChainSize]
  /\ UNCHANGED <<live, q>>
  /\ UNCHANGED tvars
  /\ UNCHANGED ovars

QFind(x) ==
  /\ live = "queues"
  /\ qop' = [name |-> "find", x |-> x, ret |-> queues_find(q, x),
             pre |-> Entries, psize |-> ChainSize]
  /\ UNCHANGED <<live, q, dq, heap>>
  /\ UNCHANGED tvars
  /\ UNCHANGED ovars

\* queues_map with the callback visit set to stop on the key `stop`; the
\* entries the callback was handed are kept with the call
QMap(stop) ==
  /\ live = "queues"
  /\ LET r == queues_map(q, "visit", [seen |-> <<>>, stop |-> stop]) IN
       /\ q' = r.q
       /\ qop' = [name |-> "map", x |-> stop, ret |-> r.ret,
                  pre |-> Entries, psize |-> ChainSize, seen |-> r.g.seen]
  /\ UNCHANGED <<live, dq, heap>>
  /\ UNCHANGED tvars
  /\ UNCHANGED ovars

\* the caller owns the block dqueues_remove returns, and frees it
DQRemove(x) ==
  /\ live = "dqueues"
  /\ x \in DOMAIN heap
  /\ LET r == dqueues_remove(dq, heap, x) IN
       /\ dq' = r.q
       /\ heap' = [b \in (DOMAIN heap) \ {r.ret} |-> heap[b]]
       /\ qop' = [name |-> "remove", x |-> x, ret |-> r.ret,
                  pre |-> Entries, psize |-> ChainSize]
  /\ UNCHANGED <<live, q>>
  /\ UNCHANGED tvars
  /\ UNCHANGED ovars

NextQ ==
  \/ \E x \in Ptrs : QEnqueu(x)
  \/ \E x \in Ptrs : QRemove(x)
  \/ \E x \in Ptrs : QFind(x)
  \/ \E stop \in 0 .. MaxKey : QMap(stop)
  \/ \E x \in Ptrs : DQEnqueu(x)
  \/ \E x \in Ptrs : DQRemove(x)

SpecQ == InitQ /\ [][NextQ]_vars

\* a client of the shallow chain that also takes entries from the two ends;
\* once a call has run into undefined behaviour the client is not followed
\* any further

InitDeq == InitQ /\ live = "queues"

QDequeueFront ==
  /\ live = "queues"
  /\ LET r == queues_dequeue_front(q) IN
       /\ q' = r.q
       /\ qop' = [name |-> "dequeue_front", x |-> NULL, ret |-> r.ret,
                  pre |-> Entries, psize |-> ChainSize, end |-> "return"]
  /\ UNCHANGED <<live, dq, heap>>
  /\ UNCHANGED tvars
  /\ UNCHANGED ovars

QDequeueBack ==
  /\ live = "queues"
  /\ \E r \in queues_dequeue_back(q) :
       /\ q' = r.q
       /\ qop' = [name |-> "dequeue_back", x |-> NULL, ret |-> r.ret,
                  pre |-> Entries, psize |-> ChainSize, end |-> r.end]
       /\ live' = IF r.end = "return" THEN live ELSE r.end
  /\ UNCHANGED <<dq, heap>>
  /\ UNCHANGED tvars
  /\ UNCHANGED ovars

NextDeq ==
  \/ \E x \in Ptrs : QEnqueu(x)
  \/ \E x \in Ptrs : QRemove(x)
  \/ QDequeueFront
  \/ QDequeueBack

SpecDeq == InitDeq /\ [][NextDeq]_vars

\* a client of the deep chain that reuses its buffers: after a call it may
\* overwrite a buffer with another record or release it

OwnBufs == 2       \* buffers the client enqueues from, overwrites and releases

OwnPtrs == 1 .. OwnBufs

\* the record the client writes over a buffer: the next key, the same tag
NextRecord(b) == [b EXCEPT ![1] = (b[1] % MaxKey) + 1]

InitOwn == InitQ /\ live = "dqueues"

DQFind(x) ==
  /\ live = "dqueues"
  /\ x \in DOMAIN heap
  /\ qop' = [name |-> "find", x |-> x, ret |-> dqueues_find(dq, heap, x),
             pre |-> Entries, psize |-> ChainSize]
  /\ UNCHANGED <<live, q, dq, heap>>
  /\ UNCHANGED tvars
  /\ UNCHANGED ovars

DQOverwrite(x) ==
  /\ live = "dqueues"
  /\ x \in DOMAIN heap
  /\ heap' = [heap EXCEPT ![x] = NextRecord(@)]
  /\ qop' = [name |-> "overwrite", x |-> x, ret |-> NULL,
             pre |-> Entries, psize |-> ChainSize]
  /\ UNCHANGED <<live, q, dq>>
  /\ UNCHANGED tvars
  /\ UNCHANGED ovars

DQRelease(x) ==
  /\ live = "dqueues"
  /\ x \in DOMAIN heap
  /\ heap' = [b \in (DOMAIN heap) \ {x} |-> heap[b]]
  /\ qop' = [name |-> "release", x |-> x, ret |-> NULL,
             pre |-> Entries, psize |-> ChainSize]
  /\ UNCHANGED <<live, q, dq>>
  /\ UNCHANGED tvars
  /\ UNCHANGED ovars

NextOwn ==
  \/ \E x \in OwnPtrs : DQEnqueu(x)
  \/ \E x \in OwnPtrs : DQRemove(x)
  \/ \E x \in OwnPtrs : DQFind(x)
  \/ \E x \in OwnPtrs : DQOverwrite(x)
  \/ \E x \in OwnPtrs : DQRelease(x)

SpecOwn == InitOwn /\ [][NextOwn]_vars

\* a client whose compare function answers -1, 0, 1 or the difference of the
\* keys, with the body scans of queues_enqueu and queues_remove run one pass
\* at a time.  qop holds the position of the call: pc is "body" while the
\* scan runs, tmp is the node it stands on, and turn is the parity of the
\* number of passes made.  A call that ends in undefined behaviour ends the
\* run.

ScanCmps == {"cmp_key", "cmp_diff"}

InitScan ==
  /\ live = "queues"
  /\ \E f \in ScanCmps : q = queues_new(f, NoFn)
  /\ dq = Nil /\ heap = <<>>
  /\ qop = [name |-> "new", x |-> NULL, ret |-> NULL,
            pc |-> "done", tmp |-> NULL, turn |-> 0]
  /\ TabIdle
  /\ OtherIdle

SEnqueuBegin(x) ==
  /\ live = "queues" /\ qop.pc = "done"
  /\ queues_size(q) < MaxLen
  /\ LET r == enqueu_enter(q, x) IN
       /\ q' = r.q
       /\ qop' = [name |-> "enqueu", x |-> x, ret |-> NULL,
                  pc |-> r.pc, tmp |-> r.tmp, turn |-> 0]
  /\ UNCHANGED <<live, dq, heap>>
  /\ UNCHANGED tvars
  /\ UNCHANGED ovars

SEnqueuStep ==
  /\ live = "queues" /\ qop.name = "enqueu" /\ qop.pc = "body"
  /\ LET r == enqueu_iter(q, qop.x, qop.tmp) IN
       /\ q' = r.q
       /\ qop' = [qop EXCEPT !.pc = r.pc, !.tmp = r.tmp, !.turn = 1 - @]
  /\ UNCHANGED <<live, dq, heap>>
  /\ UNCHANGED tvars
  /\ UNCHANGED ovars

SRemoveBegin(x) ==
  /\ live = "queues" /\ qop.pc = "done"
  /\ LET r == remove_enter(q, x) IN
       /\ q' = r.q
       /\ qop' = [name |-> "remove", x |-> x, ret |-> r.ret,
                  pc |-> r.pc, tmp |-> r.tmp, turn |-> 0]
  /\ UNCHANGED <<live, dq, heap>>
  /\ UNCHANGED tvars
  /\ UNCHANGED ovars

SRemoveStep ==
  /\ live = "queues" /\ qop.name = "remove" /\ qop.pc = "body"
  /\ \E r \in remove_iter(q, qop.x, qop.tmp) :
       /\ q' = r.q
       /\ qop' = [qop EXCEPT !.ret = r.ret, !.pc = r.pc, !.tmp = r.tmp,
                             !.turn = 1 - @]
       /\ live' = IF r.pc \in {"done", "body"} THEN live ELSE r.pc
  /\ UNCHANGED <<dq, heap>>
  /\ UNCHANGED tvars
  /\ UNCHANGED ovars

NextScan ==
  \/ \E x \in Ptrs : SEnqueuBegin(x)
  \/ SEnqueuStep
  \/ \E x \in Ptrs : SRemoveBegin(x)
  \/ SRemoveStep

SpecScan == InitScan /\ [][NextScan]_vars

\* a call that was entered keeps running: the pass of a scan that is due is
\* executed
SpecScanFair == SpecScan /\ WF_vars(SEnqueuStep) /\ WF_vars(SRemoveStep)

----------------------------------------------------------------------------
(* The client of a directory *)

NChoices == {5, 11}
HashFns == {"hash_x11", "hash_half"}
TabPtrs == {p \in Ptrs : KeyOf(p) <= MaxTabKey}

ChainIdle ==
  /\ live = "none" /\ q = Nil /\ dq = Nil /\ heap = <<>>
  /\ qop = [name |-> "none", x |-> NULL, ret |-> NULL, pre |-> <<>>, psize |-> 0]

InitT(N, b) ==
  /\ \E n \in N, h \in HashFns :
       /\ t = hashtabs_new("cmp_key", NoFn, h, NoFn, n)
       /\ op = [name |-> "new", x |-> n, ret |-> NULL]
  /\ t2 = Nil
  /\ budget = b
  /\ hist = [pristine |-> TRUE, keys |-> {}]
  /\ ChainIdle
  /\ OtherIdle

TInsert(x) ==
  /\ t2 = Nil /\ budget > 0
  /\ t' = hashtabs_insert(t, x)
  /\ op' = [name |-> "insert", x |-> x, ret |-> NULL]
  /\ hist' = IF hist.pristine /\ KeyOf(x) \notin hist.keys
             THEN [hist EXCEPT !.keys = @ \cup {KeyOf(x)}]
             ELSE Spoiled
  /\ budget' = budget - 1
  /\ UNCHANGED t2
  /\ UNCHANGED qvars
  /\ UNCHANGED ovars

TRemove(x) ==
  /\ t2 = Nil /\ budget > 0
  /\ LET r == hashtabs_remove(t, x) IN
       /\ t' = r.t
       /\ op' = [name |-> "remove", x |-> x, ret |-> r.ret]
  /\ hist' = Spoiled
  /\ budget' = budget - 1
  /\ UNCHANGED t2
  /\ UNCHANGED qvars
  /\ UNCHANGED ovars

TRehash ==
  /\ t2 = Nil /\ budget > 0
  /\ LET r == hashtabs_rehash(t) IN
       /\ t' = r.old
       /\ t2' = r.new
  /\ op' = [name |-> "rehash", x |-> NULL, ret |-> NULL]
  /\ budget' = budget - 1
  /\ UNCHANGED hist
  /\ UNCHANGED qvars
  /\ UNCHANGED ovars

\* the client publishes the new directory and frees the old one:
\* hashtabs_free(&t), then t = t2
TSwap ==
  /\ t2 # Nil
  /\ t' = t2
  /\ t2' = Nil
  /\ op' = [name |-> "swap", x |-> NULL, ret |-> NULL]
  /\ hist' = Spoiled
  /\ UNCHANGED budget
  /\ UNCHANGED qvars
  /\ UNCHANGED ovars

\* the client gives up the new directory: hashtabs_free(&t2)
TDrop ==
  /\ t2 # Nil
  /\ t2' = Nil
  /\ op' = [name |-> "free", x |-> NULL, ret |-> NULL]
  /\ UNCHANGED <<t, hist, budget>>
  /\ UNCHANGED qvars
  /\ UNCHANGED ovars

NextT ==
  \/ \E x \in TabPtrs : TInsert(x)
  \/ \E x \in TabPtrs : TRemove(x)
  \/ TRehash
  \/ TSwap
  \/ TDrop

Spec == InitT(NChoices, MaxCalls) /\ [][NextT]_vars

\* a client that inserts, removes and walks the directory with the callback
\* visit set to stop on the key `stop`

MapCalls == 4      \* mutating directory calls explored before a walk

TMap(stop) ==
  /\ LET r == hashtabs_map(t, "visit", [seen |-> <<>>, stop |-> stop]) IN
       /\ t' = r.t
       /\ op' = [name |-> "map", x |-> stop, ret |-> r.ret, seen |-> r.g.seen]
  /\ UNCHANGED <<t2, hist, budget>>
  /\ UNCHANGED qvars
  /\ UNCHANGED ovars

NextMap ==
  \/ \E x \in Ptrs : TInsert(x)
  \/ \E x \in Ptrs : TRemove(x)
  \/ \E stop \in 0 .. MaxKey : TMap(stop)

SpecMap == InitT(NChoices, MapCalls) /\ [][NextMap]_vars

\* expected element counts that select every index of the ladder: the
\* primes, their predecessors, and a few counts in between
LadderInputs ==
  {primes[i] - 1 : i \in 1 .. NPRIMES} \cup {primes[i] : i \in 1 .. NPRIMES}
    \cup {0, 5, 200}

SpecLadder == InitT(LadderInputs, LadderCalls) /\ [][NextT]_vars

\* the same client, also with expected counts above the last prime
TopInputs == LadderInputs \cup {primes[NPRIMES] + 1, SIZE_MAX - 1, SIZE_MAX}

SpecTop == InitT(TopInputs, LadderCalls) /\ [][NextT]_vars

\* a writer that runs hashtabs_rehash one step at a time and publishes the
\* result by a handle swap, and a reader that calls hashtabs_find through
\* the shared handle t between any two steps.  While the rehash runs, t2 is
\* the directory in the rehash_t; op holds the writer's position: the slots
\* still to walk and the node to visit next in the chain of the first one

SwapCalls == 3     \* mutating directory calls of the writer per run

\* the node the walk of slot Head(slots) starts at
walk_enter(d, slots) ==
  IF slots = <<>> THEN NULL ELSE d.A[Head(slots)].head

\* variant of rehash_step that migrates in place: the entry handed to the
\* callback is taken out of the directory walked
rehash_step_inplace(d, y, slots, tmp) ==
  LET c == d.A[Head(slots)]
      a == CallApply("_rehash", c.node[tmp].x, y)
  IN [old |-> hashtabs_remove(d, c.node[tmp].x).t, y |-> a.y,
      slots |-> slots, tmp |-> c.node[tmp].next]

\* one iteration of the loop of queues_map_r inside the loop of
\* hashtabs_rehash: the callback is applied to the entry of node tmp of the
\* chain in slot Head(slots), and the walk goes to the next node
rehash_step(d, y, slots, tmp) ==
  LET c == d.A[Head(slots)]
      a == CallApply("_rehash", c.node[tmp].x, y)
  IN [old |-> [d EXCEPT !.A[Head(slots)].node[tmp].x = a.x], y |-> a.y,
      slots |-> slots, tmp |-> c.node[tmp].next]

\* the answers of hashtabs_find through a handle
Answers(d) == [x \in TabPtrs |-> hashtabs_find(d, x)]

InitSwap == InitT(NChoices, SwapCalls)

\* hashtabs_rehash is entered: the new directory is made; hist keeps what
\* hashtabs_find answered before the call
RBegin ==
  /\ t2 = Nil /\ budget > 0
  /\ t2' = hashtabs_new(t.cmp, t.cmp_r, t.hash, t.hash_r, primes[t.cap_index + 1])
  /\ op' = [name |-> "walk", x |-> NULL, ret |-> NULL,
            slots |-> ChainSlots(t), tmp |-> walk_enter(t, ChainSlots(t))]
  /\ hist' = [pristine |-> FALSE, keys |-> {}, before |-> Answers(t)]
  /\ budget' = budget - 1
  /\ UNCHANGED t
  /\ UNCHANGED qvars
  /\ UNCHANGED ovars

\* the walk visits a node, goes on to the next slot, or hashtabs_rehash
\* returns the new directory
RStep ==
  /\ op.name = "walk"
  /\ IF op.slots = <<>>
     THEN /\ op' = [name |-> "rehash", x |-> NULL, ret |-> NULL]
          /\ UNCHANGED <<t, t2>>
     ELSE IF op.tmp = NULL
     THEN /\ op' = [op EXCEPT !.slots = Tail(@),
                              !.tmp = walk_enter(t, Tail(op.slots))]
          /\ UNCHANGED <<t, t2>>
     ELSE LET r == rehash_step(t, [t |-> t2, hash_arg |-> NULL, queue_arg |-> NULL],
                               op.slots, op.tmp)
          IN /\ t' = r.old
             /\ t2' = r.y.t
             /\ op' = [op EXCEPT !.slots = r.slots, !.tmp = r.tmp]
  /\ UNCHANGED <<hist, budget>>
  /\ UNCHANGED qvars
  /\ UNCHANGED ovars

\* the three assignments of the handle swap, tmp = *t1; *t1 = *t2; *t2 = tmp
RSwap ==
  /\ \/ /\ op.name = "rehash"
        /\ op' = [name |-> "swap_tmp", x |-> NULL, ret |-> NULL, tmp |-> t]
        /\ UNCHANGED <<t, t2>>
     \/ /\ op.name = "swap_tmp"
        /\ t' = t2
        /\ op' = [op EXCEPT !.name = "swap_t1"]
        /\ UNCHANGED t2
     \/ /\ op.name = "swap_t1"
        /\ t2' = op.tmp
        /\ op' = [name |-> "swap", x |-> NULL, ret |-> NULL]
        /\ UNCHANGED t
  /\ UNCHANGED <<hist, budget>>
  /\ UNCHANGED qvars
  /\ UNCHANGED ovars

\* the reader: hashtabs_find through the shared handle; qop keeps its call
\* and whether the handle was the new directory by then
RFind(x) ==
  /\ op.name \in {"walk", "rehash", "swap_tmp", "swap_t1", "swap"}
  /\ qop' = [name |-> "find", x |-> x, ret |-> hashtabs_find(t, x),
             pre |-> <<>>, psize |-> 0,
             published |-> op.name \in {"swap_t1", "swap"}]
  /\ UNCHANGED <<live, q, dq, heap>>
  /\ UNCHANGED tvars
  /\ UNCHANGED ovars

NextSwap ==
  \/ \E x \in TabPtrs : TInsert(x)
  \/ \E x \in TabPtrs : TRemove(x)
  \/ RBegin
  \/ RStep
  \/ RSwap
  \/ \E x \in TabPtrs : RFind(x)

SpecSwap == InitSwap /\ [][NextSwap]_vars

\* a client that has a directory with both kinds of compare and hash
\* function: it inserts with hashtabs_insert and with hashtabs_insert_r under
\* the seeds of HashArgs, removes with hashtabs_remove, and looks up the
\* first object of every key with hashtabs_find

CtxCalls == 3      \* mutating directory calls explored per run
CtxKeys == 2       \* keys this client uses are 1..CtxKeys

CtxPtrs == {p \in Ptrs : KeyOf(p) <= CtxKeys}

HashArgs == {0, 1}

InitCtx ==
  /\ \E h \in HashFns :
       /\ t = hashtabs_new("cmp_key", "cmp_key_r", h, "hash_seed", 5)
       /\ op = [name |-> "new", x |-> 5, ret |-> NULL]
  /\ t2 = Nil
  /\ budget = CtxCalls
  /\ hist = Spoiled
  /\ ChainIdle
  /\ OtherIdle

TInsertR(x, hash_arg) ==
  /\ t2 = Nil /\ budget > 0
  /\ t' = hashtabs_insert_r(t, x, hash_arg, NULL)
  /\ op' = [name |-> "insert_r", x |-> x, ret |-> NULL]
  /\ hist' = Spoiled
  /\ budget' = budget - 1
  /\ UNCHANGED t2
  /\ UNCHANGED qvars
  /\ UNCHANGED ovars

TFind(x) ==
  /\ op' = [name |-> "find", x |-> x, ret |-> hashtabs_find(t, x)]
  /\ UNCHANGED <<t, t2, hist, budget>>
  /\ UNCHANGED qvars
  /\ UNCHANGED ovars

NextCtx ==
  \/ \E x \in CtxPtrs : TInsert(x)
  \/ \E x \in CtxPtrs, n \in HashArgs : TInsertR(x, n)
  \/ \E x \in CtxPtrs : TRemove(x)
  \/ \E x \in 1 .. CtxKeys : TFind(x)

SpecCtx == InitCtx /\ [][NextCtx]_vars

----------------------------------------------------------------------------
(* The client of a fixed-capacity stack: it pushes while the stack is      *)
(* below its capacity and pops while the stack is not empty, as main of     *)
(* test1.c does.  call keeps the records pushed and the records read        *)
(* through the pointers the pops returned, and whether a push followed a    *)
(* pop.                                                                     *)

StackCap == 3      \* largest capacity of a stack

OthersIdle ==
  /\ ChainIdle
  /\ t = Nil /\ t2 = Nil /\ budget = 0
  /\ op = [name |-> "none", x |-> NULL, ret |-> NULL]
  /\ hist = Spoiled

InitS ==
  /\ \E n \in 1 .. RecSize, c \in 0 .. StackCap :
       /\ stack = sstacks_new(n, c)
       /\ call = [name |-> "new", x |-> NULL, ret |-> NULL, cap |-> c,
                  ins |-> <<>>, outs |-> <<>>, mixed |-> FALSE]
  /\ array = Nil /\ sets = Nil
  /\ OthersIdle

SPush(x) ==
  /\ sstacks_size(stack) < call.cap
  /\ Len(call.ins) <= StackCap
  /\ stack' = sstacks_push(stack, x)
  /\ call' = [call EXCEPT !.name = "push", !.x = x, !.ret = NULL,
                          !.ins = Append(@, SubSeq(Obj(x), 1, stack.size)),
                          !.mixed = @ \/ call.outs # <<>>]
  /\ UNCHANGED <<array, sets>>
  /\ UNCHANGED <<qvars, tvars>>

\* the client reads the record behind the pointer sstacks_pop returns
SPop ==
  /\ ~sstacks_empty(stack)
  /\ LET r == sstacks_pop(stack) IN
       /\ stack' = r.s
       /\ call' = [call EXCEPT !.name = "pop", !.x = NULL, !.ret = r.ret,
                               !.outs = Append(@, stack_read(r.s, r.ret))]
  /\ UNCHANGED <<array, sets>>
  /\ UNCHANGED <<qvars, tvars>>

NextS ==
  \/ \E x \in OwnPtrs : SPush(x)
  \/ SPop

SpecS == InitS /\ [][NextS]_vars

----------------------------------------------------------------------------
(* The client of a dynamic array: pushes, growing pushes and resizes.  A   *)
(* call that does not return ends the run.  call keeps the capacity before *)
(* the call and the index a push stored at, -1 when it stored nothing.      *)

ArrayCap == 3      \* largest capacity the client asks for

InitA ==
  /\ \E n \in 1 .. RecSize, c \in 0 .. ArrayCap :
       /\ array = arrays_new(n, c)
       /\ call = [name |-> "new", x |-> c, end |-> "return", ret |-> NULL,
                  index |-> NULL - 1, before |-> c, shrunk |-> FALSE]
  /\ stack = Nil /\ sets = Nil
  /\ OthersIdle

APush(x) ==
  /\ call.end = "return"
  /\ \E r \in arrays_push(array, x) :
       /\ array' = r.a
       /\ call' = [call EXCEPT !.name = "push", !.x = x, !.end = r.end,
                               !.ret = r.ret, !.index = r.index,
                               !.before = arrays_capacity(array)]
  /\ UNCHANGED <<stack, sets>>
  /\ UNCHANGED <<qvars, tvars>>

ADynPush(x) ==
  /\ call.end = "return"
  /\ arrays_nmem(array) <= ArrayCap
  /\ \E r \in arrays_dynpush(array, x) :
       /\ array' = r.a
       /\ call' = [call EXCEPT !.name = "dynpush", !.x = x, !.end = r.end,
                               !.ret = r.ret, !.index = r.index,
                               !.before = arrays_capacity(array)]
  /\ UNCHANGED <<stack, sets>>
  /\ UNCHANGED <<qvars, tvars>>

AResize(n) ==
  /\ call.end = "return"
  /\ \E r \in arrays_resize(array, n) :
       /\ array' = r.a
       /\ call' = [call EXCEPT !.name = "resize", !.x = n, !.end = r.end,
                               !.ret = NULL, !.index = NULL - 1,
                               !.before = arrays_capacity(array),
                               !.shrunk = @ \/ n < arrays_nmem(array)]
  /\ UNCHANGED <<stack, sets>>
  /\ UNCHANGED <<qvars, tvars>>

NextA ==
  \/ \E x \in OwnPtrs : APush(x)
  \/ \E x \in OwnPtrs : ADynPush(x)
  \/ \E n \in 0 .. (ArrayCap + 1) : AResize(n)

SpecA == InitA /\ [][NextA]_vars

----------------------------------------------------------------------------
(* The caller of bit_intersect: two sets of m words and a number *)

SetWords == 2      \* largest number of setwords in a set

\* the bit positions the sets are made of: the two ends of a setword
BitChoices == {0, WORDSIZE - 1}

InitB ==
  /\ \E m \in 1 .. SetWords :
       \E s1 \in [1 .. m -> SUBSET BitChoices], s2 \in [1 .. m -> SUBSET BitChoices] :
         sets = [s1 |-> s1, s2 |-> s2, m |-> m]
  /\ call = [name |-> "none"]
  /\ stack = Nil /\ array = Nil
  /\ OthersIdle

BIntersect(num) ==
  /\ call' = [name |-> "bit_intersect", x |-> num,
              ret |-> bit_intersect(sets.s1, sets.s2, sets.m, num)]
  /\ UNCHANGED <<stack, array, sets>>
  /\ UNCHANGED <<qvars, tvars>>

NextB == \E num \in 0 .. (2 * SetWords + 1) : BIntersect(num)

SpecB == InitB /\ [][NextB]_vars

----------------------------------------------------------------------------
(* The client of a deep directory *)

DeepCalls == 3     \* mutating deep directory calls explored per run

\* what a read past the end of a caller's buffer finds there
Beyond == {0, 255}

\* the caller's buffers followed by the bytes that lie behind them
CallerMemThen(g) ==
  [p \in Ptrs |-> Obj(p) \o [i \in 1 .. DeepCalls |-> g]]

\* hist counts the successful removes too, while no key was inserted twice
InitD ==
  /\ \E n \in NChoices, f \in HashFns, s \in 1 .. RecSize :
       t = dhashtabs_new("cmp_key", NoFn, f, NoFn, n, s)
  /\ \E g \in Beyond : heap = CallerMemThen(g)
  /\ t2 = Nil
  /\ budget = DeepCalls
  /\ op = [name |-> "new", x |-> NULL, ret |-> NULL]
  /\ hist = [pristine |-> TRUE, keys |-> {}, removed |-> 0]
  /\ live = "none" /\ q = Nil /\ dq = Nil
  /\ qop = [name |-> "none", x |-> NULL, ret |-> NULL, pre |-> <<>>, psize |-> 0]
  /\ OtherIdle

DTInsert(x) ==
  /\ budget > 0
  /\ LET r == dhashtabs_insert(t, heap, x) IN
       /\ t' = r.t
       /\ heap' = r.heap
  /\ op' = [name |-> "insert", x |-> x, ret |-> NULL]
  /\ hist' = IF hist.pristine /\ KeyOf(x) \notin hist.keys
             THEN [hist EXCEPT !.keys = @ \cup {KeyOf(x)}]
             ELSE [hist EXCEPT !.pristine = FALSE, !.keys = {}, !.removed = 0]
  /\ budget' = budget - 1
  /\ UNCHANGED <<t2, live, q, dq, qop>>
  /\ UNCHANGED ovars

\* the caller owns the block dhashtabs_remove returns, and frees it
DTRemove(x) ==
  /\ budget > 0
  /\ LET r == dhashtabs_remove(t, heap, x) IN
       /\ t' = r.t
       /\ heap' = [b \in (DOMAIN heap) \ {r.ret} |-> heap[b]]
       /\ op' = [name |-> "remove", x |-> x, ret |-> r.ret]
       /\ hist' = IF hist.pristine /\ r.ret # NULL
                  THEN [hist EXCEPT !.removed = @ + 1]
                  ELSE hist
  /\ budget' = budget - 1
  /\ UNCHANGED <<t2, live, q, dq, qop>>
  /\ UNCHANGED ovars

NextD ==
  \/ \E x \in TabPtrs : DTInsert(x)
  \/ \E x \in TabPtrs : DTRemove(x)

SpecD == InitD /\ [][NextD]_vars

\* a client that tears its deep container down: a deep chain or a deep
\* directory is filled, entries are removed, and the container is freed;
\* no call is made on the handle after that

InitFree == InitOwn \/ InitD

DQFree ==
  /\ live = "dqueues"
  /\ LET r == dqueues_free(dq, heap) IN
       /\ dq' = r.q
       /\ heap' = r.heap
       /\ qop' = [name |-> "free", x |-> NULL, ret |-> NULL,
                  pre |-> Entries, psize |-> ChainSize, nodes |-> r.nodes]
  /\ live' = "none"
  /\ UNCHANGED q
  /\ UNCHANGED tvars
  /\ UNCHANGED ovars

DTFree ==
  /\ t # Nil
  /\ LET r == dhashtabs_free(t, heap) IN
       /\ t' = r.t
       /\ heap' = r.heap
       /\ op' = [name |-> "free", x |-> NULL, ret |-> NULL, nodes |-> r.nodes]
  /\ budget' = 0
  /\ UNCHANGED <<t2, hist, live, q, dq, qop>>
  /\ UNCHANGED ovars

NextFree ==
  \/ \E x \in OwnPtrs : DQEnqueu(x)
  \/ \E x \in OwnPtrs : DQRemove(x)
  \/ DQFree
  \/ \E x \in TabPtrs : DTInsert(x)
  \/ \E x \in TabPtrs : DTRemove(x)
  \/ DTFree

SpecFree == InitFree /\ [][NextFree]_vars

\* a client that rehashes its deep directory, tears the old one down and
\* goes on with the new one

\* the new directory copies t->size bytes per record, which is more than the
\* blocks of the old one hold once a call changed t->size: the memory as a
\* read running past the end of a block finds it, g being the byte there
MaxOver == 2 * DeepCalls

Behind(h, g) == [b \in DOMAIN h |-> h[b] \o [i \in 1 .. MaxOver |-> g]]

\* the payload blocks of a deep directory: address -> bytes
RECURSIVE dmap_collect(_, _, _)
dmap_collect(d, h, slots) ==
  IF slots = <<>> THEN <<>>
  ELSE DTraverse(d.A[Head(slots)], h) \o dmap_collect(d, h, Tail(slots))

dhashtabs_entries(d, h) ==
  LET e == dmap_collect(d, h, ChainSlots(d))
  IN [b \in {e[i] : i \in 1 .. Len(e)} |-> h[b]]

\* hist.size keeps the record size handed to dhashtabs_new
InitR ==
  /\ \E n \in NChoices, f \in HashFns, s \in 1 .. RecSize :
       /\ t = dhashtabs_new("cmp_key", NoFn, f, NoFn, n, s)
       /\ hist = [pristine |-> TRUE, keys |-> {}, removed |-> 0, size |-> s]
  /\ \E g \in Beyond : heap = CallerMemThen(g)
  /\ t2 = Nil
  /\ budget = DeepCalls
  /\ op = [name |-> "new", x |-> NULL, ret |-> NULL]
  /\ live = "none" /\ q = Nil /\ dq = Nil
  /\ qop = [name |-> "none", x |-> NULL, ret |-> NULL, pre |-> <<>>, psize |-> 0]
  /\ OtherIdle

\* t2 = dhashtabs_rehash(t); op keeps the memory before the call
DTRehash(g) ==
  /\ budget > 0
  /\ t # Nil /\ t2 = Nil
  /\ LET r == dhashtabs_rehash(t, Behind(heap, g)) IN
       /\ t' = r.old
       /\ t2' = r.new
       /\ heap' = [b \in DOMAIN r.heap |->
                     IF b \in DOMAIN heap THEN heap[b] ELSE r.heap[b]]
  /\ op' = [name |-> "rehash", x |-> NULL, ret |-> NULL, pre |-> heap]
  /\ budget' = budget - 1
  /\ UNCHANGED <<hist, live, q, dq, qop>>
  /\ UNCHANGED ovars

\* dhashtabs_swap(&t, &t2); dhashtabs_free(&t2): the old directory is torn
\* down and the client goes on with the new one; op keeps the entries of the
\* new directory before the teardown
DTRetire ==
  /\ t # Nil /\ t2 # Nil
  /\ LET r == dhashtabs_free(t, heap) IN
       /\ t' = t2
       /\ t2' = r.t
       /\ heap' = r.heap
       /\ op' = [name |-> "retire", x |-> NULL, ret |-> NULL,
                 pre |-> dhashtabs_entries(t2, heap), nodes |-> r.nodes]
  /\ UNCHANGED <<budget, hist, live, q, dq, qop>>
  /\ UNCHANGED ovars

NextR ==
  \/ \E x \in TabPtrs : DTInsert(x)
  \/ \E x \in TabPtrs : DTRemove(x)
  \/ \E g \in Beyond : DTRehash(g)
  \/ DTRetire

SpecR == InitR /\ [][NextR]_vars

\* a client that constructs its chain with any pair of compare functions and
\* then works on it through the calls that use the plain one; error(1, ...)
\* ends the process with exit status 1

CmpFns == {"cmp_key", NoFn}
CmpRFns == {"cmp_key_r", NoFn}

InitNew ==
  /\ live = "none" /\ q = Nil /\ dq = Nil
  /\ heap = CallerMem
  /\ qop = [name |-> "none", x |-> NULL, ret |-> NULL, pre |-> <<>>, psize |-> 0]
  /\ TabIdle
  /\ OtherIdle

\* what the client holds after a chain constructor returned c, or did not
Constructed(variant, c) ==
  IF c = Fatal THEN "exit"
  ELSE IF c.cmp = NoFn THEN variant \o "_r"
  ELSE variant

QNew(cmp, cmp_r) ==
  /\ live = "none"
  /\ LET r == queues_new(cmp, cmp_r) IN
       /\ q' = IF r = Fatal THEN Nil ELSE r
       /\ live' = Constructed("queues", r)
       /\ qop' = [name |-> "new", x |-> NULL, ret |-> NULL, pre |-> <<>>,
                  psize |-> 0, cmp |-> cmp, cmp_r |-> cmp_r,
                  status |-> IF r = Fatal THEN r.exit ELSE 0]
  /\ UNCHANGED <<dq, heap>>
  /\ UNCHANGED tvars
  /\ UNCHANGED ovars

DQNew(cmp, cmp_r, size) ==
  /\ live = "none"
  /\ LET r == dqueues_new(cmp, cmp_r, size) IN
       /\ dq' = IF r = Fatal THEN Nil ELSE r
       /\ live' = Constructed("dqueues", r)
       /\ qop' = [name |-> "new", x |-> NULL, ret |-> NULL, pre |-> <<>>,
                  psize |-> 0, cmp |-> cmp, cmp_r |-> cmp_r,
                  status |-> IF r = Fatal THEN r.exit ELSE 0]
  /\ UNCHANGED <<q, heap>>
  /\ UNCHANGED tvars
  /\ UNCHANGED ovars

NextNew ==
  \/ \E cmp \in CmpFns, cmp_r \in CmpRFns : QNew(cmp, cmp_r)
  \/ \E cmp \in CmpFns, cmp_r \in CmpRFns, s \in 1 .. RecSize : DQNew(cmp, cmp_r, s)
  \/ \E x \in Ptrs : QEnqueu(x)
  \/ \E x \in Ptrs : QRemove(x)
  \/ \E x \in Ptrs : DQEnqueu(x)
  \/ \E x \in Ptrs : DQRemove(x)

SpecNew == InitNew /\ [][NextNew]_vars

\* a client whose allocator can run out of memory: any single malloc or
\* calloc of a call may return NULL.  No function of the chains and the
\* directories tests an allocation result.

\* what a store or a read through a null pointer comes to: the process is
\* killed by a signal, or anything else
NullUse == {"signal", "undefined"}

\* queues_new and dqueues_new when malloc returns NULL: q->cmp = cmp stores
\* through the result.  The outcomes: how the call ends, whether the failing
\* allocation was made, whether the null result was dereferenced
chain_new_nomem(cmp, cmp_r) ==
  IF cmp = NoFn /\ cmp_r = NoFn
  THEN {[end |-> "exit", failed |-> FALSE, through |-> FALSE]}
  ELSE {[end |-> e, failed |-> TRUE, through |-> TRUE] : e \in NullUse}

\* queues_enqueu when the malloc of the link node returns NULL: new->x = x
\* (q->head->x = x on the empty chain) stores through the result; a call
\* that finds the key stored allocates nothing
queues_enqueu_nomem(c, x) ==
  IF DOMAIN queues_enqueu(c, x).node = DOMAIN c.node
  THEN {[end |-> "return", failed |-> FALSE, through |-> FALSE]}
  ELSE {[end |-> e, failed |-> TRUE, through |-> TRUE] : e \in NullUse}

\* dqueues_enqueu when the malloc of the link node returns NULL (new->x = ...
\* stores through it) or the malloc of the payload block does (memcpy
\* writes q->size bytes to it)
dqueues_enqueu_nomem(c, h, x) ==
  IF DOMAIN dqueues_enqueu(c, h, x).q.node = DOMAIN c.node
  THEN {[end |-> "return", failed |-> FALSE, through |-> FALSE]}
  ELSE {[end |-> e, failed |-> TRUE, through |-> TRUE] : e \in NullUse}

\* hashtabs_new when the malloc of the directory returns NULL:
\* t->cap_index = ... stores through the result
hashtabs_new_nomem(cmp, cmp_r, hash, hash_r, n) ==
  {[end |-> e, failed |-> TRUE, through |-> TRUE, t |-> Nil] : e \in NullUse}

\* hashtabs_new when the calloc of the chain array returns NULL: the result
\* is stored in t->A and the directory is returned
hashtabs_new_noarray(cmp, cmp_r, hash, hash_r, n) ==
  {[end |-> "return", failed |-> TRUE, through |-> FALSE,
    t |-> [hashtabs_new(cmp, cmp_r, hash, hash_r, n) EXCEPT !.A = NULL]]}

\* hashtabs_insert when a malloc returns NULL: that of the chain for an
\* unused slot, in queues_new, or that of the link node, in queues_enqueu
hashtabs_insert_nomem(d, x) ==
  LET val == CallHash(d.hash, Obj(x)) % primes[d.cap_index + 1]
  IN IF Slot(d, val) = Nil THEN chain_new_nomem(d.cmp, d.cmp_r)
     ELSE queues_enqueu_nomem(d.A[val], x)

QNewNoMem(cmp, cmp_r) ==
  /\ live = "none"
  /\ \E r \in chain_new_nomem(cmp, cmp_r) :
       /\ live' = r.end
       /\ qop' = [name |-> "new_nomem", x |-> NULL, ret |-> NULL, pre |-> <<>>,
                  psize |-> 0, failed |-> r.failed, through |-> r.through]
  /\ UNCHANGED <<q, dq, heap>>
  /\ UNCHANGED tvars
  /\ UNCHANGED ovars

QEnqueuNoMem(x) ==
  /\ live = "queues"
  /\ \E r \in queues_enqueu_nomem(q, x) :
       /\ live' = IF r.end = "return" THEN live ELSE r.end
       /\ qop' = [name |-> "enqueu_nomem", x |-> x, ret |-> NULL,
                  pre |-> Entries, psize |-> ChainSize,
                  failed |-> r.failed, through |-> r.through]
  /\ UNCHANGED <<q, dq, heap>>
  /\ UNCHANGED tvars
  /\ UNCHANGED ovars

DQEnqueuNoMem(x) ==
  /\ live = "dqueues"
  /\ x \in DOMAIN heap
  /\ \E r \in dqueues_enqueu_nomem(dq, heap, x) :
       /\ live' = IF r.end = "return" THEN live ELSE r.end
       /\ qop' = [name |-> "enqueu_nomem", x |-> x, ret |-> NULL,
                  pre |-> Entries, psize |-> ChainSize,
                  failed |-> r.failed, through |-> r.through]
  /\ UNCHANGED <<q, dq, heap>>
  /\ UNCHANGED tvars
  /\ UNCHANGED ovars

\* the client constructs a directory instead of a chain
TNew(n, hash) ==
  /\ live = "none"
  /\ t' = hashtabs_new("cmp_key", NoFn, hash, NoFn, n)
  /\ op' = [name |-> "new", x |-> n, ret |-> NULL]
  /\ hist' = [pristine |-> TRUE, keys |-> {}]
  /\ budget' = LadderCalls
  /\ live' = "hashtabs"
  /\ UNCHANGED <<t2, q, dq, heap, qop>>
  /\ UNCHANGED ovars

TNewNoMem(n, hash) ==
  /\ live = "none"
  /\ \E r \in hashtabs_new_nomem("cmp_key", NoFn, hash, NoFn, n)
              \cup hashtabs_new_noarray("cmp_key", NoFn, hash, NoFn, n) :
       /\ t' = r.t
       /\ live' = IF r.end = "return" THEN "hashtabs" ELSE r.end
       /\ op' = [name |-> "new_nomem", x |-> n, ret |-> NULL,
                 failed |-> r.failed, through |-> r.through]
  /\ UNCHANGED <<t2, hist, budget, q, dq, heap, qop>>
  /\ UNCHANGED ovars

TInsertNoMem(x) ==
  /\ live = "hashtabs"
  /\ t2 = Nil /\ budget > 0
  /\ \E r \in hashtabs_insert_nomem(t, x) :
       /\ live' = IF r.end = "return" THEN live ELSE r.end
       /\ op' = [name |-> "insert_nomem", x |-> x, ret |-> NULL,
                 failed |-> r.failed, through |-> r.through]
  /\ budget' = 0
  /\ UNCHANGED <<t, t2, hist, q, dq, heap, qop>>
  /\ UNCHANGED ovars

NextAlloc ==
  \/ \E cmp \in CmpFns, cmp_r \in CmpRFns : QNew(cmp, cmp_r)
  \/ \E cmp \in CmpFns, cmp_r \in CmpRFns : QNewNoMem(cmp, cmp_r)
  \/ \E cmp \in CmpFns, cmp_r \in CmpRFns, s \in 1 .. RecSize : DQNew(cmp, cmp_r, s)
  \/ \E x \in Ptrs : QEnqueu(x)
  \/ \E x \in Ptrs : QEnqueuNoMem(x)
  \/ \E x \in Ptrs : DQEnqueu(x)
  \/ \E x \in Ptrs : DQEnqueuNoMem(x)
  \/ \E n \in NChoices, f \in HashFns : TNew(n, f)
  \/ \E n \in NChoices, f \in HashFns : TNewNoMem(n, f)
  \/ \E x \in TabPtrs : TInsert(x)
  \/ \E x \in TabPtrs : TInsertNoMem(x)

SpecAlloc == InitNew /\ [][NextAlloc]_vars

----------------------------------------------------------------------------
(* Properties of the chains *)

Keys(e) == {e[i].bytes[1] : i \in DOMAIN e}

Ascending(e) ==
  \A i \in 1 .. (Len(e) - 1) : cmp_key(e[i].bytes, e[i + 1].bytes) < 0

\* C2: after any interleaving of enqueues and removes, the entries of a chain
\* read from head to tail are strictly ascending under the comparator.
C2_StrictlyAscending == Ascending(Entries)

\* a remove from the body of a four-entry chain has happened
C2_Witness ==
  /\ qop.name = "remove" /\ qop.ret # NULL
  /\ Len(qop.pre) >= 4 /\ Len(Entries) = Len(qop.pre) - 1
  /\ Entries[1] = qop.pre[1] /\ Entries[Len(Entries)] = qop.pre[Len(qop.pre)]

\* e with the entry for x placed between the smaller and the greater entries
Below(e, x) == SelectSeq(e, LAMBDA m : cmp_key(m.bytes, Obj(x)) < 0)
Above(e, x) == SelectSeq(e, LAMBDA m : cmp_key(m.bytes, Obj(x)) > 0)

\* C3: enqueueing x, equal to no member, gives the previous entries with x at
\* its sorted position and a size one larger, on the shallow chain.
C3_EnqueuAddsSorted ==
  (live = "queues" /\ qop.name = "enqueu" /\ KeyOf(qop.x) \notin Keys(qop.pre))
  => /\ Entries = Below(qop.pre, qop.x)
                    \o <<[ptr |-> qop.x, bytes |-> Obj(qop.x)]>>
                    \o Above(qop.pre, qop.x)
     /\ queues_size(q) = qop.psize + 1

\* the body scan accepted x after advancing past at least one entry
C3_Witness ==
  /\ live = "queues" /\ qop.name = "enqueu" /\ KeyOf(qop.x) \notin Keys(qop.pre)
  /\ Len(Below(qop.pre, qop.x)) >= 2 /\ Len(Above(qop.pre, qop.x)) >= 1

\* C4: enqueueing a value equal to a member leaves the entries, their stored
\* references and the size as they were, on both chain variants.
C4_DuplicateIsNoOp ==
  (qop.name = "enqueu" /\ KeyOf(qop.x) \in Keys(qop.pre))
  => /\ Entries = qop.pre
     /\ ChainSize = qop.psize

\* a different caller object with the key of a body member was enqueued on
\* the deep chain
C4_Witness ==
  /\ live = "dqueues" /\ qop.name = "enqueu"
  /\ Len(qop.pre) >= 3
  /\ \E i \in 2 .. (Len(qop.pre) - 1) :
        /\ qop.pre[i].bytes[1] = KeyOf(qop.x)
        /\ qop.pre[i].bytes # Obj(qop.x)

\* the result of a scan of all of e for an entry equal to x
FullScan(e, x) ==
  IF \E i \in DOMAIN e : cmp_key(Obj(x), e[i].bytes) = 0
  THEN e[CHOOSE i \in DOMAIN e : cmp_key(Obj(x), e[i].bytes) = 0].ptr
  ELSE NULL

\* C13: queues_find(q, k) returns the stored entry equal to k exactly when one
\* is a member, NULL otherwise: what a scan of the whole chain returns, both
\* for the call just made and for any key asked of the chain as it stands.
C13_FindEqualsFullScan ==
  live = "queues"
  => /\ \A x \in Ptrs : queues_find(q, x) = FullScan(Entries, x)
     /\ qop.name = "find"
          => /\ qop.ret = FullScan(qop.pre, qop.x)
             /\ (qop.ret # NULL) <=> (KeyOf(qop.x) \in Keys(qop.pre))
             /\ Entries = qop.pre

\* a find gave up between a smaller and a greater entry, and a find of a key
\* held behind two smaller entries would succeed
C13_Witness ==
  /\ live = "queues" /\ qop.name = "find" /\ qop.ret = NULL
  /\ Len(Below(qop.pre, qop.x)) >= 1 /\ Len(Above(qop.pre, qop.x)) >= 2
  /\ queues_find(q, Entries[Len(Entries)].ptr) = Entries[Len(Entries)].ptr

\* C14: queues_remove(q, k) with an entry equal to k present returns that
\* stored entry, unlinks and frees that one node, keeps every other entry in
\* its order and lowers the size by one; with no such entry it returns NULL
\* and leaves entries and size alone.
C14_RemoveFrame ==
  (live = "queues" /\ qop.name = "remove")
  => IF KeyOf(qop.x) \in Keys(qop.pre)
     THEN /\ qop.ret = FullScan(qop.pre, qop.x)
          /\ Entries = SelectSeq(qop.pre, LAMBDA m : m.ptr # qop.ret)
          /\ Len(Entries) = Len(qop.pre) - 1
          /\ Cardinality(DOMAIN q.node) = Len(Entries)
          /\ queues_size(q) = qop.psize - 1
     ELSE /\ qop.ret = NULL
          /\ Entries = qop.pre
          /\ Cardinality(DOMAIN q.node) = Len(Entries)
          /\ queues_size(q) = qop.psize

\* the third of four entries was removed
C14_Witness ==
  /\ live = "queues" /\ qop.name = "remove"
  /\ Len(qop.pre) = 4 /\ qop.ret = qop.pre[3].ptr
  /\ Len(Entries) = 3

\* C15: queues_dequeue_front removes and returns the smallest entry and
\* queues_dequeue_back the largest; taking the last entry leaves head and tail
\* null and size 0; on an empty chain either call returns NULL and changes
\* nothing.
C15_DequeueEnds ==
  [][(live = "queues" /\ qop'.name \in {"dequeue_front", "dequeue_back"})
       => /\ qop'.end = "return"
          /\ IF Entries = <<>>
             THEN qop'.ret = NULL /\ q' = q
             ELSE /\ qop'.ret = IF qop'.name = "dequeue_front"
                                THEN Entries[1].ptr
                                ELSE Entries[Len(Entries)].ptr
                  /\ \A i \in DOMAIN Entries :
                       IF qop'.name = "dequeue_front"
                       THEN cmp_key(Obj(qop'.ret), Entries[i].bytes) <= 0
                       ELSE cmp_key(Obj(qop'.ret), Entries[i].bytes) >= 0
                  /\ Traverse(q') = IF qop'.name = "dequeue_front"
                                    THEN [i \in 1 .. (Len(Entries) - 1) |->
                                            Entries[i + 1].ptr]
                                    ELSE [i \in 1 .. (Len(Entries) - 1) |->
                                            Entries[i].ptr]
                  /\ queues_size(q') = queues_size(q) - 1
                  /\ Len(Entries) = 1
                       => q'.head = NULL /\ q'.tail = NULL /\ queues_size(q') = 0]_vars

\* the stored pointers of e up to and including the first one with key k,
\* all of them when no entry has that key
UpTo(e, k) ==
  IF \E i \in DOMAIN e : e[i].bytes[1] = k
  THEN [j \in 1 .. Min({i \in DOMAIN e : e[i].bytes[1] = k}) |-> e[j].ptr]
  ELSE [j \in DOMAIN e |-> e[j].ptr]

\* C16: queues_map hands the callback the entries in ascending order, each
\* once; after a negative result no later entry is visited and the call
\* returns -1, otherwise every entry is visited and it returns 1.
C16_MapOrderAndAbort ==
  (live = "queues" /\ qop.name = "map")
  => /\ qop.seen = UpTo(qop.pre, qop.x)
     /\ \A i \in 1 .. (Len(qop.seen) - 1) :
          cmp_key(Obj(qop.seen[i]), Obj(qop.seen[i + 1])) < 0
     /\ qop.ret = IF qop.x \in Keys(qop.pre) THEN -1 ELSE 1
     /\ qop.ret = 1 => Len(qop.seen) = Len(qop.pre)
     /\ Entries = qop.pre

\* the callback stopped the walk on the third of four entries, after results
\* 0 and 1 on the first two
C16_Witness ==
  /\ live = "queues" /\ qop.name = "map" /\ qop.ret = -1
  /\ Len(qop.pre) = 4 /\ Len(qop.seen) = 3
  /\ qop.pre[3].bytes[1] = qop.x
  /\ qop.pre[1].bytes[1] % 2 = 1 /\ qop.pre[2].bytes[1] % 2 = 0

\* the entries of the deep chain c in the memory h: the stored address and
\* the bytes found there, none when nothing is allocated there
Stored(c, h) ==
  [i \in 1 .. Len(DTraverse(c, h)) |->
     [ptr |-> DTraverse(c, h)[i],
      bytes |-> IF DTraverse(c, h)[i] \in DOMAIN h
                THEN h[DTraverse(c, h)[i]] ELSE <<>>]]

\* C20: the deep chain keeps its own copy of each record: the entry an
\* enqueue adds is found at a block allocated by that call, distinct from the
\* caller's buffer, holding the bytes of the buffer; overwriting or releasing
\* a caller's buffer afterwards changes no stored entry.
C20_OwnedCopy ==
  [][/\ (qop'.name = "enqueu" /\ live = "dqueues"
          /\ dqueues_size(dq') = dqueues_size(dq) + 1)
        => LET f == dqueues_find(dq', heap', qop'.x) IN
             /\ f # NULL /\ f # qop'.x
             /\ f \notin DOMAIN heap /\ f \in DOMAIN heap'
             /\ heap'[f] = SubSeq(heap[qop'.x], 1, dq.size)
             /\ \A b \in DOMAIN heap : heap'[b] = heap[b]
             /\ \A i \in DOMAIN Stored(dq', heap') :
                  Stored(dq', heap')[i].ptr \notin Ptrs
     /\ (qop'.name \in {"overwrite", "release"})
        => /\ Stored(dq', heap') = Stored(dq, heap)
           /\ dqueues_size(dq') = dqueues_size(dq)
           /\ \A i \in DOMAIN Stored(dq, heap) :
                dqueues_find(dq', heap', Stored(dq, heap)[i].ptr)
                  = Stored(dq, heap)[i].ptr]_vars

\* the buffer of one stored entry was overwritten and the buffer of another
\* released: the chain still holds both records as they were enqueued
C20_Witness ==
  /\ live = "dqueues" /\ qop.name = "release"
  /\ \E i \in DOMAIN Entries : Entries[i].bytes = Obj(qop.x)
  /\ \E p \in DOMAIN heap :
        /\ p \in Ptrs /\ heap[p] # Obj(p)
        /\ \E i \in DOMAIN Entries : Entries[i].bytes = Obj(p)
  /\ Len(Entries) >= 2

----------------------------------------------------------------------------
(* Properties of the directory *)

EntrySet(d) == {hashtabs_entries(d)[i] : i \in 1 .. Len(hashtabs_entries(d))}

\* C1: on a fresh directory, after k inserts of pairwise distinct keys and no
\* removal, the size is k, every inserted key is found and no other key is.
C1_DistinctInserts ==
  hist.pristine
  => /\ hashtabs_size(t) = Cardinality(hist.keys)
     /\ \A p \in TabPtrs : (hashtabs_find(t, p) # NULL) <=> (KeyOf(p) \in hist.keys)

\* an insert has brought a fresh directory to three distinct keys
C1_Witness ==
  /\ hist.pristine /\ Cardinality(hist.keys) >= 3
  /\ op.name = "insert"

\* C5: the size counter equals the sum of the lengths of the chains.
C5_SizeIsSumOfChains == hashtabs_size(t) = Len(hashtabs_entries(t))

\* C6: the load counter equals the number of chains holding an entry.
C6_LoadIsNonEmptyChains ==
  t.load = Cardinality({i \in DOMAIN t.A : Traverse(t.A[i]) # <<>>})

\* C7: when hashtabs_remove returns an entry, a find of the same key on the
\* directory it leaves returns NULL, and the size is one less than before.
C7_RemoveThenFindFails ==
  [][(op'.name = "remove" /\ op'.ret # NULL)
       => /\ hashtabs_find(t', op'.x) = NULL
          /\ hashtabs_size(t') = hashtabs_size(t) - 1]_vars

C7_Witness ==
  /\ op.name = "remove" /\ op.ret # NULL
  /\ Len(hashtabs_entries(t)) >= 2

\* C8: the directory hashtabs_rehash returns holds the same entries as the
\* one it was given, and finds every key the old one finds, with the same
\* stored pointer.
C8_RehashKeepsEntries ==
  [][op'.name = "rehash"
       => /\ EntrySet(t2') = EntrySet(t)
          /\ Len(hashtabs_entries(t2')) = Len(hashtabs_entries(t))
          /\ \A p \in TabPtrs :
               hashtabs_find(t, p) # NULL
                 => hashtabs_find(t2', p) = hashtabs_find(t, p)]_vars

\* a directory with a chain of two entries and a third entry was rehashed
C8_Witness ==
  /\ op.name = "rehash"
  /\ Len(hashtabs_entries(t2)) >= 3
  /\ \E i \in DOMAIN t.A : Len(Traverse(t.A[i])) >= 2

C10_RehashLeavesOld ==
  [][op'.name = "rehash" => t' = t]_vars

C10_Witness ==
  /\ op.name = "rehash"
  /\ Len(hashtabs_entries(t)) >= 2
  /\ Len(hashtabs_entries(t2)) >= 2

\* C12: hashtabs_new with expected count n, below the last prime of the
\* ladder, returns a directory whose capacity is the smallest prime of the
\* ladder strictly greater than n (5 -> 11, 11 -> 17, 200 -> 227), with no
\* slot holding a chain and with size and load 0.
C12_NewCapacity ==
  (op.name = "new" /\ op.x < primes[NPRIMES])
  => /\ hashtabs_capacity(t) \in {primes[j] : j \in 1 .. NPRIMES}
     /\ hashtabs_capacity(t) > op.x
     /\ \A j \in 1 .. NPRIMES :
          primes[j] > op.x => hashtabs_capacity(t) <= primes[j]
     /\ op.x = 5 => hashtabs_capacity(t) = 11
     /\ op.x = 11 => hashtabs_capacity(t) = 17
     /\ op.x = 200 => hashtabs_capacity(t) = 227
     /\ DOMAIN t.A = {}
     /\ \A i \in {0, op.x, hashtabs_capacity(t) - 1} : Slot(t, i) = Nil
     /\ hashtabs_size(t) = 0 /\ t.load = 0

\* a directory was made for an expected count that is itself a prime of the
\* ladder
C12_Witness ==
  /\ op.name = "new" /\ op.x = 11
  /\ hashtabs_capacity(t) = 17

\* the slot of the directory d that the entry p hashes to
SlotOf(d, p) == CallHash(d.hash, Obj(p)) % hashtabs_capacity(d)

\* C17: hashtabs_map hands the callback the chains in index order and the
\* entries of a chain in ascending order, each stored entry once; a negative
\* result ends the whole walk, with no further entry of that chain or of a
\* later chain visited, and the call returns -1; otherwise it returns 1 after
\* visiting every entry.
C17_DirectoryMapOrderAndAbort ==
  op.name = "map"
  => LET e == [i \in 1 .. Len(hashtabs_entries(t)) |->
                 [ptr |-> hashtabs_entries(t)[i],
                  bytes |-> Obj(hashtabs_entries(t)[i])]]
     IN /\ op.seen = UpTo(e, op.x)
        /\ \A i, j \in DOMAIN op.seen :
             i < j => \/ SlotOf(t, op.seen[i]) < SlotOf(t, op.seen[j])
                      \/ /\ SlotOf(t, op.seen[i]) = SlotOf(t, op.seen[j])
                         /\ cmp_key(Obj(op.seen[i]), Obj(op.seen[j])) < 0
        /\ op.ret = IF op.x \in Keys(e) THEN -1 ELSE 1
        /\ op.ret = 1 => {op.seen[i] : i \in DOMAIN op.seen} = EntrySet(t)

\* the walk was stopped on the first entry of the second chain, leaving the
\* next entry of that chain and the entry of a third chain unvisited
C17_Witness ==
  /\ op.name = "map" /\ op.ret = -1
  /\ Len(op.seen) = 2 /\ Len(hashtabs_entries(t)) = 4
  /\ SlotOf(t, op.seen[1]) < SlotOf(t, op.seen[2])
  /\ SlotOf(t, hashtabs_entries(t)[3]) = SlotOf(t, op.seen[2])
  /\ SlotOf(t, hashtabs_entries(t)[4]) > SlotOf(t, op.seen[2])

\* C18: at fixed capacity and with no removals, every hashtabs_insert leaves
\* a load factor greater than or equal to the one before the call.
C18_InsertNeverLowersLoadFactor ==
  [][(op'.name = "insert" /\ hist'.pristine)
       => hashtabs_loadfactor(t') >= hashtabs_loadfactor(t)]_vars

\* C18, amended: a hashtabs_insert that finds a chain in the slot it hashes
\* to leaves a load factor greater than or equal to the one before the call
\* (an insert that opens a new chain can lower it).
C18_InsertIntoChainKeepsLoadFactor ==
  [][(op'.name = "insert" /\ Slot(t, SlotOf(t, op'.x)) # Nil)
       => hashtabs_loadfactor(t') >= hashtabs_loadfactor(t)]_vars

\* a third key was inserted into the only chain of a fresh directory
C18_Witness ==
  /\ op.name = "insert" /\ hist.pristine
  /\ Cardinality(hist.keys) = 3 /\ t.load = 1
  /\ hashtabs_loadfactor(t) = 3

\* C19: for a directory with a non-empty set of entries, the load factor of
\* the directory hashtabs_rehash returns is strictly lower than the load
\* factor of the one it was given.
C19_RehashLowersLoadFactor ==
  [][(op'.name = "rehash" /\ hashtabs_entries(t) # <<>>)
       => hashtabs_loadfactor(t2') < hashtabs_loadfactor(t)]_vars

\* C19, amended: for a directory with a non-empty set of entries, the load
\* factor of the directory hashtabs_rehash returns is the number of entries
\* divided by the number of slots they hash to at the new capacity, at least
\* 1 (it need not be lower than the load factor before).
C19_RehashLoadFactorIsEntriesPerChain ==
  [][(op'.name = "rehash" /\ hashtabs_entries(t) # <<>>)
       => /\ hashtabs_loadfactor(t2')
               = Len(hashtabs_entries(t))
                   \div Cardinality({SlotOf(t2', p) : p \in EntrySet(t)})
          /\ hashtabs_loadfactor(t2') >= 1]_vars

\* three entries that shared a chain were spread over three chains
C19_Witness ==
  /\ op.name = "rehash"
  /\ Len(hashtabs_entries(t)) = 3
  /\ hashtabs_loadfactor(t) = 3 /\ hashtabs_loadfactor(t2) = 1

----------------------------------------------------------------------------
(* Properties of the deep directory *)

\* C11: on a fresh deep directory of any record size, after k inserts of
\* pairwise distinct keys and j successful removes, dhashtabs_size is k - j.
C11_DeepSizeCountsMembers ==
  hist.pristine => dhashtabs_size(t) = Cardinality(hist.keys) - hist.removed

----------------------------------------------------------------------------
(* Properties of the teardown of the deep variants *)

\* the blocks the container allocated that are still allocated
Blocks == (DOMAIN heap) \ Ptrs

\* C21: after dqueues_free, and after dhashtabs_free, no payload block
\* allocated by an insert and still held by the container remains allocated,
\* every link node is released and the handle is null.
C21_TeardownReleasesEntries ==
  /\ qop.name = "free" => Blocks = {} /\ qop.nodes = {} /\ dq = Nil
  /\ op.name = "free" => Blocks = {} /\ op.nodes = {} /\ t = Nil

\* the part of C21 the code does: the link nodes and the handle
C21_TeardownReleasesNodes ==
  /\ qop.name = "free" => qop.nodes = {} /\ dq = Nil
  /\ op.name = "free" => op.nodes = {} /\ t = Nil

----------------------------------------------------------------------------
(* Properties of the deep rehash *)

\* the first n bytes of a block
Leading(b, n) == SubSeq(b, 1, n)

----------------------------------------------------------------------------
(* Properties of the constructors *)

\* C23: queues_new and dqueues_new with both compare functions absent end
\* the process with exit status 1 and return no chain; with a compare
\* function supplied they return an empty chain: size 0, head and tail null.
C23_NewNeedsComparator ==
  qop.name = "new" =>
    IF qop.cmp = NoFn /\ qop.cmp_r = NoFn
    THEN live = "exit" /\ qop.status = 1 /\ q = Nil /\ dq = Nil
    ELSE \/ /\ live \in {"queues", "queues_r"}
            /\ q # Nil /\ queues_size(q) = 0
            /\ q.head = NULL /\ q.tail = NULL /\ Traverse(q) = <<>>
         \/ /\ live \in {"dqueues", "dqueues_r"}
            /\ dq # Nil /\ dqueues_size(dq) = 0
            /\ dq.head = NULL /\ dq.tail = NULL /\ DTraverse(dq, heap) = <<>>

\* a constructor call with neither compare function
C23_Witness ==
  /\ qop.name = "new"
  /\ qop.cmp = NoFn /\ qop.cmp_r = NoFn
  /\ live = "exit"

\* C24: whenever a memory allocation made by a constructor or an insert of
\* the chains and the directories fails, the process aborts with a
\* diagnostic before the failed result is used: no call stores or reads
\* through a null allocation result, and none returns having kept one.
C24_AllocationFailureIsFatal ==
  /\ qop.name \in {"new_nomem", "enqueu_nomem"} /\ qop.failed =>
       live = "abort" /\ ~qop.through
  /\ op.name \in {"new_nomem", "insert_nomem"} /\ op.failed =>
       live = "abort" /\ ~op.through

----------------------------------------------------------------------------
(* Properties of the prime ladder *)

HalfMore(a, b) == b - a >= (a + 1) \div 2

\* C26: hashtabs_rehash resizes to a prime length at least 1.5 times the
\* current one: for every two consecutive primes p, p' of the ladder below
\* the SIZE_MAX sentinel, 2 * p' >= 3 * p, and so a rehash of a directory
\* below the last prime gives 2 * capacity(new) >= 3 * capacity(old).
C26_RehashGrowsByHalf ==
  \A i \in 1 .. (NPRIMES - 1) :
    (op.name = "rehash" /\ hashtabs_capacity(t) = primes[i])
      => /\ hashtabs_capacity(t2) = primes[i + 1]
         /\ HalfMore(primes[i], primes[i + 1])

----------------------------------------------------------------------------
(* Properties of build-then-swap *)

\* C27: while hashtabs_rehash runs step by step, and until the new handle is
\* published, hashtabs_find through the old handle answers what it answered
\* before the rehash began; the directory returned is the one the call
\* builds in one piece; and after the swap every key that was findable
\* through the old handle is findable through the new one, with the same
\* entry.
C27_BuildThenSwap ==
  /\ op.name \in {"walk", "rehash", "swap_tmp"} => Answers(t) = hist.before
  /\ (qop.name = "find" /\ ~qop.published) => qop.ret = hist.before[qop.x]
  /\ op.name = "rehash" => t2 = hashtabs_rehash(t).new
  /\ op.name \in {"swap_t1", "swap"} =>
       \A x \in TabPtrs : hist.before[x] # NULL => hashtabs_find(t, x) = hist.before[x]
  /\ (qop.name = "find" /\ qop.published /\ hist.before[qop.x] # NULL) =>
       qop.ret = hist.before[qop.x]
  /\ op.name = "swap" => Answers(t2) = hist.before

\* the reader found an entry through the old handle while the walk had
\* copied some entries and not others, in a directory with a chain of two
C27_Witness ==
  /\ op.name = "walk"
  /\ qop.name = "find" /\ ~qop.published /\ qop.ret # NULL
  /\ t2.size > 0 /\ t2.size < t.size
  /\ \E i \in DOMAIN t.A : queues_size(t.A[i]) >= 2

----------------------------------------------------------------------------
(* Properties of the fixed-capacity stack *)

\* C28: between the calls top is the data base plus nmem times the record
\* size, so sstacks_empty holds exactly when sstacks_size is 0; nmem is the
\* number of pushes less the number of pops; and while no push has followed
\* a pop the records read through the pointers the pops returned are the
\* records pushed, last first: after k <= capacity pushes the pops made
\* while the stack is not empty are exactly k and return the records in
\* reverse push order.
C28_StackIsLifo ==
  /\ stack.top = stack.x + sstacks_size(stack) * stack.size
  /\ sstacks_empty(stack) <=> sstacks_size(stack) = 0
  /\ sstacks_size(stack) = Len(call.ins) - Len(call.outs)
  /\ ~call.mixed =>
       /\ \A i \in 1 .. Len(call.outs) :
            call.outs[i] = call.ins[Len(call.ins) + 1 - i]
       /\ sstacks_empty(stack) => Len(call.outs) = Len(call.ins)

\* a stack filled to its capacity with records that are not all equal was
\* emptied by pops
C28_Witness ==
  /\ call.name = "pop" /\ ~call.mixed
  /\ sstacks_empty(stack)
  /\ Len(call.ins) = StackCap /\ call.cap = StackCap
  /\ call.ins[1] # call.ins[StackCap]
  /\ stack.size = RecSize

----------------------------------------------------------------------------
(* Properties of the dynamic array *)

\* C29: arrays_resize(a, n) with n below the number of elements truncates
\* them, so that arrays_nmem(a) <= arrays_capacity(a) = n afterwards; nmem
\* <= capacity holds after every sequence of arrays_push, arrays_dynpush and
\* arrays_resize, and no push stores at an index >= capacity.
C29_ResizeTruncates ==
  /\ call.end = "return" => arrays_nmem(array) <= arrays_capacity(array)
  /\ (call.name = "resize" /\ call.end = "return")
       => arrays_capacity(array) = call.x
  /\ (call.name \in {"push", "dynpush"} /\ call.index >= 0)
       => call.index < arrays_capacity(array)

\* what the code keeps: the same, as long as no arrays_resize went below
\* the number of elements
C29_BoundUnlessShrunk ==
  ~call.shrunk =>
    /\ arrays_nmem(array) <= arrays_capacity(array)
    /\ call.end \in {"return", "exit"}
    /\ (call.name \in {"push", "dynpush"} /\ call.index >= 0)
         => call.index < arrays_capacity(array)

----------------------------------------------------------------------------
(* Properties of the bit sets *)

\* the elements of a set of m words
Elements(s, m) ==
  {e \in (1 .. m) \X (0 .. (WORDSIZE - 1)) : e[2] \in s[e[1]]}

\* the number of elements two sets share
Shared == Cardinality(Elements(sets.s1, sets.m) \cap Elements(sets.s2, sets.m))

\* C30: bit_intersect(s1, s2, m, num) returns 1 if the intersection of the
\* two sets has exactly num elements and -1 otherwise.
C30_IntersectIsExactly ==
  call.name = "bit_intersect" =>
    call.ret = IF Shared = call.x THEN 1 ELSE -1

\* what the code answers: 1 if the intersection has at most num elements
C30_IntersectIsAtMost ==
  call.name = "bit_intersect" =>
    call.ret = IF Shared <= call.x THEN 1 ELSE -1


----------------------------------------------------------------------------
(* Properties of the lookup by full scan *)

\* the positions of the sequence of entries e whose entry compares equal to x
EqualAt(e, x) == {i \in 1 .. Len(e) : cmp_key(Obj(x), Obj(e[i])) = 0}

\* the first entry of e equal to x
FirstEqual(e, x) == IF EqualAt(e, x) = {} THEN NULL ELSE e[Min(EqualAt(e, x))]

\* the sequence s without its i-th element
Without(s, i) == [j \in 1 .. (Len(s) - 1) |-> IF j < i THEN s[j] ELSE s[j + 1]]

\* C32: hashtabs_find and hashtabs_remove return the first entry equal to the
\* key in the order of the slots and, in a slot, from head to tail, whatever
\* slot the key hashes to, and NULL
\* exactly when no chain holds such an entry; hashtabs_remove takes that one
\* entry out and leaves every other entry in place.
C32_ScanFindsAnyChain ==
  [][op'.name \in {"find", "remove"}
       => LET e == hashtabs_entries(t) IN
          /\ op'.ret = FirstEqual(e, op'.x)
          /\ op'.name = "remove"
               => hashtabs_entries(t')
                    = IF EqualAt(e, op'.x) = {} THEN e
                      ELSE Without(e, Min(EqualAt(e, op'.x)))]_vars

\* after a removal, hashtabs_find returned an entry that hashtabs_insert_r
\* stored, while the slot the key hashes to under t->hash holds no chain
C32_Witness ==
  /\ op.name = "find" /\ op.ret # NULL
  /\ Slot(t, CallHash(t.hash, Obj(op.x)) % hashtabs_capacity(t)) = Nil
  /\ hashtabs_size(t) < CtxCalls
  /\ budget = 0


----------------------------------------------------------------------------
(* Properties of the placement *)

\* the slot of the entry x in the directory d
HomeSlot(d, x) == CallHash(d.hash, Obj(x)) % hashtabs_capacity(d)

\* every chain of d sits below the capacity and every entry in its home slot
Placed(d) ==
  \A i \in DOMAIN d.A :
    /\ i < hashtabs_capacity(d)
    /\ \A j \in 1 .. Len(Traverse(d.A[i])) : HomeSlot(d, Traverse(d.A[i])[j]) = i

\* C33: every stored entry is in the chain of the slot hash(x) mod capacity,
\* in the directory the client works on and in the one hashtabs_rehash
\* returns; a chain appears in a slot only in a call that inserts an entry
\* hashing to that slot, and the chains of a rehashed directory are the home
\* slots of the entries of the directory it was made from.
C33_EntriesInHomeSlot ==
  [][/\ Placed(t')
     /\ t2' # Nil => Placed(t2')
     /\ op'.name = "insert"
          => (DOMAIN t'.A) \ (DOMAIN t.A) \subseteq {HomeSlot(t, op'.x)}
     /\ op'.name = "remove" => DOMAIN t'.A = DOMAIN t.A
     /\ op'.name = "rehash"
          => DOMAIN t2'.A = {HomeSlot(t2', x) : x \in EntrySet(t)}]_vars

\* a directory that holds an emptied chain and entries in two other chains
\* was rehashed, and an entry changed its slot
C33_Witness ==
  /\ op.name = "rehash"
  /\ \E i \in DOMAIN t.A : Traverse(t.A[i]) = <<>>
  /\ Cardinality(DOMAIN t2.A) >= 2
  /\ \E x \in EntrySet(t) : HomeSlot(t, x) # HomeSlot(t2, x)


----------------------------------------------------------------------------
(* Properties of the record size *)

\* the record sizes of the chains of the deep directory d
ChainRecordSizes(d) == IF d = Nil THEN {} ELSE {d.A[i].size : i \in DOMAIN d.A}

\* C34: every chain of a deep directory, also of a rehashed one, has the
\* record size handed to dhashtabs_new, and every payload block holds that
\* many bytes, whatever inserts and removes came before.
C34_RecordSizeFixed ==
  /\ ChainRecordSizes(t) \cup ChainRecordSizes(t2) \subseteq {hist.size}
  /\ \A b \in Blocks : Len(heap[b]) = hist.size


----------------------------------------------------------------------------
(* Properties of the uniqueness of keys *)

\* C35: no two entries stored in the directory compare equal, in one chain
\* or in two, after any inserts with hashtabs_insert and hashtabs_insert_r.
C35_NoEqualEntries ==
  LET e == hashtabs_entries(t) IN
  \A i, j \in 1 .. Len(e) : i # j => cmp_key(Obj(e[i]), Obj(e[j])) # 0

\* no chain holds two entries that compare equal
C35_NoEqualEntriesInChain ==
  \A s \in DOMAIN t.A :
    LET e == Traverse(t.A[s]) IN
    \A i, j \in 1 .. Len(e) : i # j => cmp_key(Obj(e[i]), Obj(e[j])) # 0


----------------------------------------------------------------------------
(* Properties of the links of a chain *)

\* the nodes met from node n following next
RECURSIVE NodesNext(_, _)
NodesNext(c, n) ==
  IF n = NULL THEN <<>> ELSE <<n>> \o NodesNext(c, c.node[n].next)

\* the nodes met from node n following prev
RECURSIVE NodesPrev(_, _)
NodesPrev(c, n) ==
  IF n = NULL THEN <<>> ELSE <<n>> \o NodesPrev(c, c.node[n].prev)

\* the links of a chain with a first node: the walk from head ends in tail,
\* the walk from tail ends in head, next and prev are inverse, and the nodes
\* allocated are the nodes linked
Linked(c) ==
  LET f == NodesNext(c, c.head)
      b == NodesPrev(c, c.tail)
  IN /\ f[Len(f)] = c.tail
     /\ b[Len(b)] = c.head
     /\ Len(f) = queues_size(c)
     /\ \A i \in 1 .. Len(f) : b[Len(f) + 1 - i] = f[i]
     /\ {f[i] : i \in 1 .. Len(f)} = DOMAIN c.node

\* C36: head is null iff tail is null iff the size is 0; head and tail are
\* never the address of a freed node; in a chain with entries tail is the
\* last node reached from head by next, head the last reached from tail by
\* prev, and n.next.prev = n for every linked node.
C36_ChainWellFormed ==
  live = "queues"
  => /\ (q.head = NULL) <=> (q.tail = NULL)
     /\ (q.head = NULL) <=> (queues_size(q) = 0)
     /\ {q.head, q.tail} \subseteq (DOMAIN q.node) \cup {NULL}
     /\ q.head # NULL => Linked(q)

\* the same, with nothing said about tail in a chain without a first node
C36_WellFormedFromHead ==
  live = "queues"
  => /\ (q.head = NULL) <=> (queues_size(q) = 0)
     /\ q.head = NULL => DOMAIN q.node = {}
     /\ q.head # NULL => q.tail \in DOMAIN q.node /\ Linked(q)


----------------------------------------------------------------------------
(* Properties of the load counter *)

\* C37: hashtabs_remove decrements the load counter only when it is greater
\* than 0, so the counter never wraps around to SIZE_MAX.
C37_LoadNeverWraps ==
  [][op'.name = "remove" => (t'.load = t.load \/ t.load > 0)]_vars


----------------------------------------------------------------------------
(* Properties of the size across a rehash *)

\* C38: the directory hashtabs_rehash returns has the size of the directory
\* it was given.
C38_RehashKeepsSize ==
  [][op'.name = "rehash" => hashtabs_size(t2') = hashtabs_size(t)]_vars

\* the directory hashtabs_rehash returns has one count per entry stored
C38_RehashCountsEntries ==
  [][op'.name = "rehash" => hashtabs_size(t2') = Len(hashtabs_entries(t))]_vars


----------------------------------------------------------------------------
(* Properties of the body scans *)

\* C39: a call of queues_enqueu or queues_remove that has entered its body
\* scan leaves it, whatever negative and positive values the compare
\* function answers with.
C39_ScanTerminates == (qop.pc = "body") ~> (qop.pc # "body")

\* every pass of a body scan moves to the next node or ends the scan
C39_PassAdvancesOrReturns ==
  [][qop.pc = "body" => (qop'.pc # "body" \/ qop'.tmp # qop.tmp)]_vars

\* the same for a compare function that answers -1, 0 and 1 only
C39_PassAdvancesOnUnitResults ==
  [][(qop.pc = "body" /\ q.cmp = "cmp_key")
       => (qop'.pc # "body" \/ qop'.tmp # qop.tmp)]_vars

====
